---------------------------- MODULE Spec2Model ----------------------------
(***************************************************************************)
(* Verification model of the exam-sim scraping pipeline:                   *)
(*   - the Normalizer        (examtopics_helper/scraper_export.py)         *)
(*   - the scrape command    (question_set_tools/question_set_tools/cli.py)*)
(*   - the URL Collector     (examtopics_helper/scrape.py)                  *)
(*   - the Fetch Client      (question_set_tools/question_set_tools/http.py)*)
(* Each component has its own specification (SpecNorm, SpecScrape,         *)
(* SpecCollect, SpecFetch); the variables of the other components stay at  *)
(* their idle values.                                                      *)
(***************************************************************************)
EXTENDS Integers, Sequences, FiniteSets, TLC

VARIABLES
    \* ---- Normalizer
    npc,        \* "start" | "once" | "twice"
    nq,         \* the input question record
    n1,         \* normalize_question_dict(nq)
    n2,         \* normalize_question_dict(n1)
    \* ---- scrape command (_cmd_scrape)
    spc,        \* position in _cmd_scrape
    urls,       \* the URL list read from the URL file
    overwrite,  \* args.overwrite
    no_resume,  \* args.no_resume
    use_cache,  \* args.cache is given
    disk,       \* the cache file: [st, data]
    loaded,     \* scraped_by_url as it was right after loading the cache
    scraped,    \* scraped_by_url: a dict in insertion order
    pos,        \* index of the current URL in urls
    ok,         \* ok counter
    fail,       \* fail counter
    fetched,    \* the URLs for which a fetch was issued, in order
    questions,  \* the exported question list
    split_size, \* args.split_size: [given, n]
    out_files,  \* the files written by the export, in order
    exit_code,  \* the return value of _cmd_scrape (-1: not returned)
    urls_file,  \* the file args.urls names: [exists, lines]
    processed,  \* the URLs the loop has dealt with, and how, in order
    shape,      \* the Python type of scraped_by_url: "dict" | "list" | "null"
    cache_st,   \* what the cache file was when it was read ("unread" before)
    \* ---- URL collector (collect_discussion_urls_from_list_pages)
    cpc,        \* position of the calling thread
    keyword,    \* target_exam_keyword, a sequence of characters
    max_workers,        \* cfg.max_workers
    continue_on_error,  \* cfg.continue_on_error
    task,       \* per list page, the state of its future
    content,    \* per list page, the anchors of the page that was fetched
    result,     \* per list page, the list fetch_one returned
    completion, \* the list pages in the order their futures completed
    snapshot,   \* the futures already complete when as_completed started
    consumed,   \* the list pages in the order as_completed yielded them
    out,        \* the list "out"
    failed_pages,  \* failed_list_pages_out
    uniq,       \* the returned list
    \* ---- fetch client (polite_get)
    fpc,        \* position in polite_get
    cfg_retries,  \* cfg.retries
    retry,      \* the Retry object of the request in flight
    attempts,   \* requests sent to the current URL
    hops,       \* redirects followed
    last_retry, \* what the last retry reacted to and how long it waited
    outcome,    \* what polite_get gave its caller: [kind, status]
    \* ---- extraction pipeline (parse_discussion_page, parsed_to_question_dict,
    \*      normalize_question_dict)
    xpc,        \* "html" | "parsed" | "record" | "normalized"
    html,       \* the discussion page
    pq,         \* the ParsedQuestion
    qdict,      \* parsed_to_question_dict(url, pq)
    qnorm,      \* normalize_question_dict(qdict)
    \* ---- question-set loader (parse_question_set)
    lpc,        \* "start" | "received" | "loaded"
    origin,     \* where the document came from: "export" | "file"
    document,   \* the decoded JSON document
    qset,       \* the QuestionSet returned
    load_error, \* QuestionSetFormatError was raised
    \* ---- collect-urls command (_cmd_collect_urls)
    collect_exit_code,  \* exit status of collect-urls (-1: still running)
    urls_out,   \* what was written to args.out / printed
    failed_out, \* what was written to args.failed_out
    \* ---- top-voted resolver (_format_top_voted_explanation)
    tpc,        \* "start" | "done"
    discussion_text,  \* the text of the discussion element
    top_voted, \* the explanation returned
    \* ---- progress API (infra/lambda/progress/index.py)
    table,      \* the DynamoDB table: pk -> [active, trials, legacy]
    reqs,       \* the invocations: slot -> request with its position and locals
    clock,      \* the latest creation time stored so far (trial ids are timestamps)
    access,     \* the table calls made so far: [sub, pk]
    cap         \* what a run may start: [slots, kinds, subs, clock]

nvars == <<npc, nq, n1, n2>>

svars == <<spc, urls, overwrite, no_resume, use_cache, disk, loaded, scraped,
           pos, ok, fail, fetched, questions, split_size, out_files, exit_code,
           urls_file, processed, shape, cache_st>>

cvars == <<cpc, keyword, max_workers, continue_on_error, task, content,
           result, completion, snapshot, consumed, out, failed_pages, uniq>>

fvars == <<fpc, cfg_retries, retry, attempts, hops, last_retry, outcome>>

xvars == <<xpc, html, pq, qdict, qnorm>>

lvars == <<lpc, origin, document, qset, load_error>>

kvars == <<collect_exit_code, urls_out, failed_out>>

tvars == <<tpc, discussion_text, top_voted>>

pvars == <<table, reqs, clock, access, cap>>

vars == <<nvars, svars, cvars, fvars, xvars, lvars, kvars, tvars, pvars>>

\* the variables of the other components, which an action leaves alone
notNorm == <<svars, cvars, fvars, xvars, lvars, kvars, tvars, pvars>>
notScrape == <<nvars, cvars, fvars, xvars, lvars, kvars, tvars, pvars>>
notCollect == <<nvars, svars, fvars, xvars, lvars, kvars, tvars, pvars>>
notFetch == <<nvars, svars, cvars, xvars, lvars, kvars, tvars, pvars>>
notExtract == <<nvars, svars, cvars, fvars, lvars, kvars, tvars, pvars>>
notLoad == <<nvars, svars, cvars, fvars, xvars, kvars, tvars, pvars>>
notCmd == <<nvars, svars, cvars, fvars, xvars, lvars, tvars, pvars>>
notVote == <<nvars, svars, cvars, fvars, xvars, lvars, kvars, pvars>>
notProgress == <<nvars, svars, cvars, fvars, xvars, lvars, kvars, tvars>>

(***************************************************************************)
(* Generic helpers                                                         *)
(***************************************************************************)
Range(s) == {s[i] : i \in 1..Len(s)}

Prefix(s, n) == SubSeq(s, 1, n)

\* all sequences over S of length 0..n
SeqsUpTo(S, n) == UNION {[1..k -> S] : k \in 0..n}

\* first-seen order, duplicates dropped (the "seen" loops of the source)
RECURSIVE DedupFrom(_, _)
DedupFrom(s, acc) ==
    IF s = <<>> THEN acc
    ELSE IF Head(s) \in Range(acc) THEN DedupFrom(Tail(s), acc)
         ELSE DedupFrom(Tail(s), Append(acc, Head(s)))

\* scrape.py 72-80 (faulty variant): only a repetition of the previous element is dropped
RECURSIVE DedupAdjacent(_)
DedupAdjacent(s) ==
    IF Len(s) < 2 THEN s
    ELSE IF s[1] = s[2] THEN DedupAdjacent(Tail(s))
         ELSE <<Head(s)>> \o DedupAdjacent(Tail(s))

\* scrape.py 72-80, scraper_export.py 66-71
Dedup(s) == DedupFrom(s, <<>>)

\* Python's None, for fields that hold a list / a bool otherwise
NoneList == <<"None">>
NoneBool == "None"

(***************************************************************************)
(* Text.  A text is modelled as a sequence of words separated by single    *)
(* blanks, with optional leading / trailing whitespace:                    *)
(*     [lead |-> BOOLEAN, words |-> Seq(Word), trail |-> BOOLEAN]          *)
(* A word is one of the phrases the regular expressions of the source look *)
(* for, or a filler word.  The whitespace-only text is lead = TRUE with no *)
(* words; texts are single-line (no newline).                              *)
(***************************************************************************)
ShowTok    == "Show Suggested Answer"
HideTok    == "Hide Answer"
SuggTok    == "Suggested Answer:"
CorrTok    == "Correct Answer:"
ChooseTok  == "(Choose two)"
ChooseDotTok == "(Choose two.)"
InlineA    == "A."
InlineB    == "B."
Filler     == "1+1?"

EmptyText == [lead |-> FALSE, words |-> <<>>, trail |-> FALSE]

\* str.strip()
Strip(t) == [lead |-> FALSE, words |-> t.words, trail |-> FALSE]

\* the upper-cased letters of the longest prefix of a word that lies in the
\* character class [A-Z\s,] under re.I
Absorb(w) ==
    CASE w = "A"     -> <<"A">>
      [] w = "C"     -> <<"C">>
      [] w = "AC"    -> <<"A", "C">>
      [] w = "A,"    -> <<"A">>
      [] w = "vote"  -> <<"V", "O", "T", "E">>
      [] w = InlineA -> <<"A">>
      [] w = InlineB -> <<"B">>
      [] w = SuggTok -> <<"S", "U", "G", "G", "E", "S", "T", "E", "D",
                          "A", "N", "S", "W", "E", "R">>
      [] w = CorrTok -> <<"C", "O", "R", "R", "E", "C", "T",
                          "A", "N", "S", "W", "E", "R">>
      [] w = ShowTok -> <<"S", "H", "O", "W", "S", "U", "G", "G", "E", "S",
                          "T", "E", "D", "A", "N", "S", "W", "E", "R">>
      [] w = HideTok -> <<"H", "I", "D", "E", "A", "N", "S", "W", "E", "R">>
      [] OTHER       -> <<>>

\* the whole word lies in the class, so the group runs on into the next word
Through(w) == w \in {"A", "C", "AC", "A,", "vote", ShowTok, HideTok}

\* the word starts with a letter: ([A-Z] under re.I matches its first character)
StartsWithLetter(w) == Absorb(w) # <<>>

\* group(1) of  <marker>\s*([A-Z][A-Z\s,]*)  starting at word i, as letters
RECURSIVE GroupLetters(_, _)
GroupLetters(ws, i) ==
    IF i > Len(ws) THEN <<>>
    ELSE IF Through(ws[i]) THEN Absorb(ws[i]) \o GroupLetters(ws, i + 1)
         ELSE Absorb(ws[i])

\* positions where  <marker>\s*([A-Z]...)  matches
MarkerHits(ws, marker) ==
    {i \in 1..Len(ws) : /\ ws[i] = marker
                        /\ i < Len(ws)
                        /\ StartsWithLetter(ws[i + 1])}

Min(S) == CHOOSE x \in S : \A y \in S : x <= y

\* scraper_export.py 59-71: labels after the first "Suggested Answer:" match,
\* else after the first "Correct Answer:" match, upper-cased, de-duplicated
LabelsOf(t) ==
    LET sug == MarkerHits(t.words, SuggTok)
        cor == MarkerHits(t.words, CorrTok)
    IN  IF sug # {} THEN Dedup(GroupLetters(t.words, Min(sug) + 1))
        ELSE IF cor # {} THEN Dedup(GroupLetters(t.words, Min(cor) + 1))
        ELSE <<>>

\* positions of the words in S
Positions(ws, S) == {i \in 1..Len(ws) : ws[i] \in S}

\* re.sub(r"\s*(<one of S>)\b.*$", "", text): cut from the whitespace in
\* front of the first such word to the end of the text
CutFrom(t, S) ==
    LET hits == Positions(t.words, S)
    IN  IF hits = {} THEN t
        ELSE IF Min(hits) = 1 THEN EmptyText
        ELSE [lead |-> t.lead, words |-> Prefix(t.words, Min(hits) - 1),
              trail |-> FALSE]

\* positions where  \sX[\.\)]\s  matches: the word X. with whitespace on
\* both sides
InlineHits(t, w) ==
    {i \in 1..Len(t.words) :
        /\ t.words[i] = w
        /\ (i > 1 \/ t.lead)
        /\ (i < Len(t.words) \/ t.trail)}

\* scraper_export.py 78-81 / scrape.py 104-116
StripInlineChoices(t) ==
    IF InlineHits(t, InlineA) # {} /\ InlineHits(t, InlineB) # {}
    THEN Strip([lead |-> t.lead,
                words |-> Prefix(t.words, Min(InlineHits(t, InlineA)) - 1),
                trail |-> FALSE])
    ELSE t

\* re.search(r"\(\s*Choose\s+(?:two|three|four|\d+)\s*\)", text, re.I)
HasChoosePhrase(t) == ChooseTok \in Range(t.words)

\* scraper_export.py 74-76: text_clean is compared to text AFTER .strip()
CleanUiTail(t) ==
    LET text_clean == Strip(CutFrom(t, {ShowTok, HideTok}))
    IN  IF text_clean = t THEN Strip(CutFrom(t, {SuggTok})) ELSE text_clean

\* scraper_export.py 89-92
DeriveMulti(answer_choice_ids, t) ==
    IF \/ (answer_choice_ids # NoneList /\ Len(answer_choice_ids) > 1)
       \/ HasChoosePhrase(t)
    THEN "true" ELSE "false"

\* scraper_export.py 87 (faulty variant): the labels found in the text replace
\* answers that are already present
NormalizeOverwritingAnswers(q) ==
    LET labels     == LabelsOf(q.text)
        text_clean == StripInlineChoices(CleanUiTail(q.text))
        answers    == IF labels # <<>> THEN labels ELSE q.answer_choice_ids
        multi      == IF q.is_multi_select = NoneBool
                      THEN DeriveMulti(answers, text_clean)
                      ELSE q.is_multi_select
    IN  [q EXCEPT !.text = text_clean,
                  !.answer_choice_ids = answers,
                  !.is_multi_select = multi]

\* scraper_export.py 50-93
normalize_question_dict(q) ==
    LET labels     == LabelsOf(q.text)
        text_clean == StripInlineChoices(CleanUiTail(q.text))
        answers    == IF q.answer_choice_ids = NoneList /\ labels # <<>>
                      THEN labels ELSE q.answer_choice_ids
        multi      == IF q.is_multi_select = NoneBool
                      THEN DeriveMulti(answers, text_clean)
                      ELSE q.is_multi_select
    IN  [q EXCEPT !.text = text_clean,
                  !.answer_choice_ids = answers,
                  !.is_multi_select = multi]

(***************************************************************************)
(* Normalizer specification: a record is drawn, normalized, and the result *)
(* normalized again.                                                       *)
(***************************************************************************)
NormMaxWords == 3

NormWords == {Filler, "A", "AC", InlineA, InlineB, SuggTok, CorrTok,
              ShowTok, ChooseTok, ChooseDotTok}

NormTexts ==
    {[lead |-> l, words |-> ws, trail |-> tr] :
        l \in BOOLEAN, ws \in SeqsUpTo(NormWords, NormMaxWords),
        tr \in BOOLEAN} \ {[lead |-> l, words |-> <<>>, trail |-> TRUE] :
                             l \in BOOLEAN}

NormAnswers == {NoneList, <<>>, <<"A">>, <<"A", "C">>}

NormMultis == {NoneBool, "true", "false"}

NormRecords ==
    [text : NormTexts, answer_choice_ids : NormAnswers,
     is_multi_select : NormMultis, explanation : {"None", "e"},
     id : {<<"et", 1, 1>>}]

NoRecord == [text |-> EmptyText, answer_choice_ids |-> NoneList,
             is_multi_select |-> NoneBool, explanation |-> "None",
             id |-> <<>>]

(***************************************************************************)
(* The scrape command (_cmd_scrape).                                       *)
(*                                                                         *)
(* A dict is a sequence of [k, v] entries in insertion order (Python dicts *)
(* and json.loads keep it).  The cache file holds such a dict: json.dumps  *)
(* of a dict with string keys and JSON values followed by json.loads gives *)
(* the dict back, key order included, so the file is modelled by the dict  *)
(* it encodes, or by "corrupt" when its content is no JSON document (an    *)
(* empty or cut-off file), or "absent".                                    *)
(***************************************************************************)
Keys(d) == {d[j].k : j \in 1..Len(d)}

HasKey(d, k) == k \in Keys(d)

Get(d, k) == d[CHOOSE j \in 1..Len(d) : d[j].k = k].v

\* d[k] = v: an existing key keeps its position, a new key goes last
DictSet(d, k, v) ==
    IF HasKey(d, k)
    THEN [j \in 1..Len(d) |-> IF d[j].k = k THEN [k |-> k, v |-> v] ELSE d[j]]
    ELSE Append(d, [k |-> k, v |-> v])

\* A discussion URL https://www.examtopics.com/discussions/<cat>/<num>/
Urls == {[cat |-> "amazon", num |-> 1], [cat |-> "amazon", num |-> 2],
         [cat |-> "google", num |-> 1]}

\* scraper_export.py 17-22 (the numeric branch): et-<num>-q<q_index>
question_id_from_url(url, q_index) == <<"et", url.num, q_index>>

\* the record parsed_to_question_dict builds from a freshly parsed page
FreshRecord(url) ==
    [id |-> question_id_from_url(url, 1),
     text |-> [lead |-> FALSE, words |-> <<Filler, ChooseTok>>, trail |-> FALSE],
     answer_choice_ids |-> <<"A", "C">>,
     is_multi_select |-> "true",
     explanation |-> "e"]

\* a record written to the cache by an earlier run (stale parser output)
CachedRecord(url) ==
    [id |-> question_id_from_url(url, 1),
     text |-> [lead |-> FALSE, words |-> <<Filler, ShowTok, SuggTok, "A">>,
               trail |-> FALSE],
     answer_choice_ids |-> NoneList,
     is_multi_select |-> NoneBool,
     explanation |-> "None"]

MaxUrls == 3

UrlLists == UNION {[1..n -> Urls] : n \in 1..MaxUrls}

\* the dicts an earlier run can have left in the cache file: any URLs, in
\* any insertion order
RECURSIVE OrderedSubsets(_)
OrderedSubsets(S) ==
    {<<>>} \cup UNION {{<<x>> \o r : r \in OrderedSubsets(S \ {x})} : x \in S}

CacheDicts ==
    {[j \in 1..Len(ks) |-> [k |-> ks[j], v |-> CachedRecord(ks[j])]] :
        ks \in OrderedSubsets(Urls)}

AbsentFile == [st |-> "absent", data |-> <<>>]
CorruptFile == [st |-> "corrupt", data |-> <<>>]
ValidFile(d) == [st |-> "valid", data |-> d]

\* cli.py 89: a file json.loads accepts without giving a dict: "[]" (st "list")
\* or "null" (st "null")
OtherShapes == {"list", "null"}

OtherFile(kind) == [st |-> kind, data |-> <<>>]

NoSplit == [given |-> FALSE, n |-> 0]

\* the values of --split-size: absent, or an integer
MaxSplit == 5

SplitSizes == {NoSplit} \cup {[given |-> TRUE, n |-> k] : k \in -1..MaxSplit}

NoFile == [exists |-> FALSE, lines |-> <<>>]

UrlLine(u) == [kind |-> "url", url |-> u]

BlankLine == [kind |-> "blank", url |-> [cat |-> "", num |-> 0]]

CommentLine == [kind |-> "comment", url |-> [cat |-> "", num |-> 0]]

FileOf(us) == [exists |-> TRUE, lines |-> [j \in 1..Len(us) |-> UrlLine(us[j])]]

\* the files args.urls can name: missing, without any URL, or holding the
\* URLs of a list (with a comment and a blank line for the one-URL lists)
UrlFiles ==
    {NoFile,
     [exists |-> TRUE, lines |-> <<>>],
     [exists |-> TRUE, lines |-> <<CommentLine, BlankLine>>]}
    \cup {FileOf(us) : us \in UrlLists}
    \cup {[exists |-> TRUE, lines |-> <<CommentLine, UrlLine(u), BlankLine>>] :
            u \in Urls}

\* cli.py 56-62: the lines that are neither blank nor comments
RECURSIVE read_urls(_)
read_urls(lines) ==
    IF lines = <<>> THEN <<>>
    ELSE (IF Head(lines).kind = "url" THEN <<Head(lines).url>> ELSE <<>>)
         \o read_urls(Tail(lines))

ScrapeIdle ==
    /\ spc = "idle"
    /\ urls = <<>>
    /\ overwrite = FALSE
    /\ no_resume = FALSE
    /\ use_cache = FALSE
    /\ disk = AbsentFile
    /\ loaded = <<>>
    /\ scraped = <<>>
    /\ pos = 0
    /\ ok = 0
    /\ fail = 0
    /\ fetched = <<>>
    /\ questions = <<>>
    /\ split_size = NoSplit
    /\ out_files = <<>>
    /\ exit_code = -1
    /\ urls_file = NoFile
    /\ processed = <<>>
    /\ shape = "dict"
    /\ cache_st = "unread"

\* cli.py 65: the command starts; the file args.urls names may be missing,
\* and may hold blank and comment lines
ScrapeInit ==
    /\ spc = "read"
    /\ urls_file \in UrlFiles
    /\ urls = <<>>
    /\ processed = <<>>
    /\ overwrite \in BOOLEAN
    /\ no_resume \in BOOLEAN
    /\ use_cache \in BOOLEAN
    /\ disk \in {AbsentFile, CorruptFile} \cup {ValidFile(d) : d \in CacheDicts}
                 \cup {OtherFile(k) : k \in OtherShapes}
    /\ (~use_cache => disk = AbsentFile)
    /\ shape = "dict"
    /\ cache_st = "unread"
    /\ loaded = <<>>
    /\ scraped = <<>>
    /\ pos = 1
    /\ ok = 0
    /\ fail = 0
    /\ fetched = <<>>
    /\ questions = <<>>
    /\ split_size = NoSplit
    /\ out_files = <<>>
    /\ exit_code = -1

\* cli.py 66-70: the file is missing;  cli.py 71-73: it holds no URL
UsageError ==
    /\ spc = "read"
    /\ (~urls_file.exists \/ read_urls(urls_file.lines) = <<>>)
    /\ exit_code' = 2
    /\ spc' = "done"
    /\ UNCHANGED <<urls, overwrite, no_resume, use_cache, disk, loaded, scraped,
                   pos, ok, fail, fetched, questions, split_size, out_files,
                   urls_file, processed, shape, cache_st>>
    /\ UNCHANGED notScrape

\* cli.py 67: _read_urls returns at least one URL
ReadUrls ==
    /\ spc = "read"
    /\ urls_file.exists
    /\ read_urls(urls_file.lines) # <<>>
    /\ urls' = read_urls(urls_file.lines)
    /\ spc' = "load"
    /\ UNCHANGED <<overwrite, no_resume, use_cache, disk, loaded, scraped,
                   pos, ok, fail, fetched, questions, split_size, out_files,
                   exit_code, urls_file, processed, shape, cache_st>>
    /\ UNCHANGED notScrape

\* cli.py 85-91
LoadCache ==
    /\ spc = "load"
    /\ scraped' = IF use_cache /\ disk.st # "absent" /\ ~no_resume
                  THEN (IF disk.st = "valid" THEN disk.data ELSE <<>>)
                  ELSE <<>>
    /\ shape' = IF use_cache /\ ~no_resume /\ disk.st \in OtherShapes
                THEN disk.st ELSE "dict"
    /\ cache_st' = IF use_cache /\ ~no_resume THEN disk.st ELSE "unread"
    /\ loaded' = scraped'
    /\ spc' = "loop"
    /\ UNCHANGED <<urls, overwrite, no_resume, use_cache, disk, pos, ok, fail,
                   fetched, questions, split_size, out_files, exit_code>>
    /\ UNCHANGED <<urls_file, processed>>
    /\ UNCHANGED notScrape

\* cli.py 96 (faulty variant): the cache is not consulted
ShouldSkipNever(ow, d, url) == FALSE

\* cli.py 96
ShouldSkip(ow, d, url) == (~ow) /\ HasKey(d, url)

\* cli.py 96: "url in scraped_by_url" is evaluated when overwrite is off, and
\* raises TypeError when scraped_by_url is None
MembershipRaises(ow, sh) == (~ow) /\ sh = "null"

\* cli.py 96: the TypeError is raised outside the try block and ends the
\* command with a traceback; _cmd_scrape never returns
LoopTypeError ==
    /\ spc = "loop"
    /\ pos <= Len(urls)
    /\ MembershipRaises(overwrite, shape)
    /\ spc' = "aborted"
    /\ UNCHANGED <<urls, overwrite, no_resume, use_cache, disk, loaded,
                   scraped, pos, ok, fail, fetched, questions, split_size,
                   out_files, exit_code>>
    /\ UNCHANGED <<urls_file, processed, shape, cache_st>>
    /\ UNCHANGED notScrape

\* cli.py 95-98: the URL is in the cache and overwrite is off
LoopSkip ==
    /\ spc = "loop"
    /\ pos <= Len(urls)
    /\ ~MembershipRaises(overwrite, shape)
    /\ ShouldSkip(overwrite, scraped, urls[pos])
    /\ ok' = ok + 1
    /\ pos' = pos + 1
    /\ UNCHANGED <<spc, urls, overwrite, no_resume, use_cache, disk, loaded,
                   scraped, fail, fetched, questions, split_size, out_files,
                   exit_code>>
    /\ processed' = Append(processed, [url |-> urls[pos], how |-> "cached"])
    /\ UNCHANGED <<urls_file, shape, cache_st>>
    /\ UNCHANGED notScrape

\* cli.py 99-100: fetch_and_parse_discussion is called
FetchIssue ==
    /\ spc = "loop"
    /\ pos <= Len(urls)
    /\ ~MembershipRaises(overwrite, shape)
    /\ ~ShouldSkip(overwrite, scraped, urls[pos])
    /\ fetched' = Append(fetched, urls[pos])
    /\ spc' = "fetching"
    /\ UNCHANGED <<urls, overwrite, no_resume, use_cache, disk, loaded,
                   scraped, pos, ok, fail, questions, split_size, out_files,
                   exit_code>>
    /\ UNCHANGED <<urls_file, processed, shape, cache_st>>
    /\ UNCHANGED notScrape

\* cli.py 108: the cache is written only when a cache path is given
AfterFetch == IF use_cache THEN "write_open" ELSE "next"

\* cli.py 100-106: fetch and parse succeeded, but scraped_by_url is a list
\* or None and "scraped_by_url[url] = q" raises TypeError inside the try
\* block: the URL is counted as failed
StoreTypeError ==
    /\ spc = "fetching"
    /\ shape # "dict"
    /\ fail' = fail + 1
    /\ spc' = AfterFetch
    /\ processed' = Append(processed, [url |-> urls[pos], how |-> "unstored"])
    /\ UNCHANGED <<urls, overwrite, no_resume, use_cache, disk, loaded,
                   scraped, pos, ok, fetched, questions, split_size, out_files,
                   exit_code, urls_file, shape, cache_st>>
    /\ UNCHANGED notScrape

\* cli.py 100-103: fetch and parse succeeded
FetchOk ==
    /\ spc = "fetching"
    /\ shape = "dict"
    /\ scraped' = DictSet(scraped, urls[pos], FreshRecord(urls[pos]))
    /\ ok' = ok + 1
    /\ spc' = AfterFetch
    /\ UNCHANGED <<urls, overwrite, no_resume, use_cache, disk, loaded, pos,
                   fail, fetched, questions, split_size, out_files, exit_code>>
    /\ processed' = Append(processed, [url |-> urls[pos], how |-> "extracted"])
    /\ UNCHANGED <<urls_file, shape, cache_st>>
    /\ UNCHANGED notScrape

\* cli.py 104-106 (faulty variant): the first failure ends the batch
FetchFailAborts ==
    /\ spc = "fetching"
    /\ fail' = fail + 1
    /\ exit_code' = 1
    /\ spc' = "done"
    /\ processed' = Append(processed, [url |-> urls[pos], how |-> "failed"])
    /\ UNCHANGED <<urls, overwrite, no_resume, use_cache, disk, loaded,
                   scraped, pos, ok, fetched, questions, split_size, out_files,
                   urls_file, shape, cache_st>>
    /\ UNCHANGED notScrape

\* cli.py 104-106 (faulty variant): a failed re-fetch discards the entry the
\* cache had for the URL
FetchFailDrops ==
    /\ spc = "fetching"
    /\ fail' = fail + 1
    /\ scraped' = SelectSeq(scraped, LAMBDA e : e.k # urls[pos])
    /\ spc' = AfterFetch
    /\ processed' = Append(processed, [url |-> urls[pos], how |-> "failed"])
    /\ UNCHANGED <<urls, overwrite, no_resume, use_cache, disk, loaded,
                   pos, ok, fetched, questions, split_size, out_files,
                   exit_code, urls_file, shape, cache_st>>
    /\ UNCHANGED notScrape

\* cli.py 104-106: fetch or parse raised
FetchFail ==
    /\ spc = "fetching"
    /\ fail' = fail + 1
    /\ spc' = AfterFetch
    /\ UNCHANGED <<urls, overwrite, no_resume, use_cache, disk, loaded,
                   scraped, pos, ok, fetched, questions, split_size, out_files,
                   exit_code>>
    /\ processed' = Append(processed, [url |-> urls[pos], how |-> "failed"])
    /\ UNCHANGED <<urls_file, shape, cache_st>>
    /\ UNCHANGED notScrape

\* cli.py 109 (atomic variant): the write goes to a temporary file first, the cache
\* file is untouched until the data is complete
OpenKeeps(file) == file

\* cli.py 109: Path.write_text opens the file with mode "w", which empties it
OpenForWrite(file) == CorruptFile

\* cli.py 108-109: cache_path.write_text(...) opens the cache file
CacheOpen ==
    /\ spc = "write_open"
    /\ disk' = OpenForWrite(disk)
    /\ spc' = "write_data"
    /\ UNCHANGED <<urls, overwrite, no_resume, use_cache, loaded, scraped, pos,
                   ok, fail, fetched, questions, split_size, out_files,
                   exit_code>>
    /\ UNCHANGED <<urls_file, processed, shape, cache_st>>
    /\ UNCHANGED notScrape

\* cli.py 109-111: the serialized dict is written and the file closed
CacheWrite ==
    /\ spc = "write_data"
    /\ disk' = IF shape = "dict" THEN ValidFile(scraped) ELSE OtherFile(shape)
    /\ spc' = "next"
    /\ UNCHANGED <<urls, overwrite, no_resume, use_cache, loaded, scraped, pos,
                   ok, fail, fetched, questions, split_size, out_files,
                   exit_code>>
    /\ UNCHANGED <<urls_file, processed, shape, cache_st>>
    /\ UNCHANGED notScrape

\* cli.py 95: the for loop moves to the next URL
LoopNext ==
    /\ spc = "next"
    /\ pos' = pos + 1
    /\ spc' = "loop"
    /\ UNCHANGED <<urls, overwrite, no_resume, use_cache, disk, loaded,
                   scraped, ok, fail, fetched, questions, split_size,
                   out_files, exit_code>>
    /\ UNCHANGED <<urls_file, processed, shape, cache_st>>
    /\ UNCHANGED notScrape

\* cli.py 114 (faulty variant): the export walks the cache, not the URL list
RECURSIVE ExportWalkCache(_, _)
ExportWalkCache(us, d) ==
    IF d = <<>> THEN <<>>
    ELSE (IF Head(d).k \in Range(us)
          THEN <<normalize_question_dict(Head(d).v)>> ELSE <<>>)
         \o ExportWalkCache(us, Tail(d))

\* cli.py 114:
\*   [normalize_question_dict(scraped_by_url[u]) for u in urls if u in scraped_by_url]
RECURSIVE ExportQuestions(_, _)
ExportQuestions(us, d) ==
    IF us = <<>> THEN <<>>
    ELSE (IF HasKey(d, Head(us))
          THEN <<normalize_question_dict(Get(d, Head(us)))>> ELSE <<>>)
         \o ExportQuestions(Tail(us), d)

Take(s, k) == SubSeq(s, 1, IF k < Len(s) THEN k ELSE Len(s))

Drop(s, k) == SubSeq(s, (IF k < Len(s) THEN k ELSE Len(s)) + 1, Len(s))

\* cli.py 121 (faulty variant): range(0, len(questions) - split_size + 1, split_size),
\* the trailing partial chunk is lost
RECURSIVE ChunksFullOnly(_, _)
ChunksFullOnly(qs, k) ==
    IF Len(qs) < k THEN <<>>
    ELSE <<Take(qs, k)>> \o ChunksFullOnly(Drop(qs, k), k)

\* cli.py 121:
\*   [questions[i : i + split_size] for i in range(0, len(questions), split_size)]
RECURSIVE Chunks(_, _)
Chunks(qs, k) ==
    IF qs = <<>> THEN <<>>
    ELSE <<Take(qs, k)>> \o Chunks(Drop(qs, k), k)

\* scraper_export.py 96-97
export_question_set(set_id, qs) == [set_id |-> set_id, questions |-> qs]

\* cli.py 131-136: chunk idx is written to <base>-<idx><suffix> with set_id
\* <set_id>-<idx>;  cli.py 145-147: the single file is args.out with args.set_id
OutFile(name, doc) == [name |-> name, doc |-> doc]

\* cli.py 119
ShouldSplit(split, qs) == split.given /\ split.n > 0 /\ Len(qs) > split.n

\* cli.py 116-148
ExportFiles(split, qs) ==
    IF ShouldSplit(split, qs)
    THEN LET chunks == Chunks(qs, split.n)
         IN  [c \in 1..Len(chunks) |->
                 OutFile(<<"out", c>>, export_question_set(<<"set", c>>, chunks[c]))]
    ELSE <<OutFile(<<"out">>, export_question_set(<<"set">>, qs))>>

\* cli.py 113-149: the loop is over; the questions are exported and the
\* command returns
Export ==
    /\ spc = "loop"
    /\ pos > Len(urls)
    /\ shape # "null"
    /\ \E split \in SplitSizes :
          /\ split_size' = split
          /\ questions' = ExportQuestions(urls, scraped)
          /\ out_files' = ExportFiles(split, questions')
    /\ exit_code' = IF fail = 0 THEN 0 ELSE 1
    /\ spc' = "done"
    /\ UNCHANGED <<urls, overwrite, no_resume, use_cache, disk, loaded,
                   scraped, pos, ok, fail, fetched>>
    /\ UNCHANGED <<urls_file, processed, shape, cache_st>>
    /\ UNCHANGED notScrape

\* cli.py 114: "u in scraped_by_url" raises TypeError when scraped_by_url is
\* None; nothing is exported and _cmd_scrape never returns
ExportTypeError ==
    /\ spc = "loop"
    /\ pos > Len(urls)
    /\ shape = "null"
    /\ spc' = "aborted"
    /\ UNCHANGED <<urls, overwrite, no_resume, use_cache, disk, loaded,
                   scraped, pos, ok, fail, fetched, questions, split_size,
                   out_files, exit_code>>
    /\ UNCHANGED <<urls_file, processed, shape, cache_st>>
    /\ UNCHANGED notScrape

\* the process is terminated abruptly (kill, power loss) at any point
Crash ==
    /\ spc \in {"read", "load", "loop", "fetching", "write_open", "write_data",
               "next"}
    /\ spc' = "crashed"
    /\ UNCHANGED <<urls, overwrite, no_resume, use_cache, disk, loaded,
                   scraped, pos, ok, fail, fetched, questions, split_size,
                   out_files, exit_code>>
    /\ UNCHANGED <<urls_file, processed, shape, cache_st>>
    /\ UNCHANGED notScrape

\* the steps of the command itself
ScrapeRun ==
    \/ UsageError
    \/ ReadUrls
    \/ LoadCache
    \/ LoopTypeError
    \/ LoopSkip
    \/ FetchIssue
    \/ StoreTypeError
    \/ FetchOk
    \/ FetchFail
    \/ CacheOpen
    \/ CacheWrite
    \/ LoopNext
    \/ ExportTypeError
    \/ Export

ScrapeNext == ScrapeRun \/ Crash

(***************************************************************************)
(* The export step alone, from the states in which the loop of _cmd_scrape *)
(* has ended: longer URL lists than SpecScrape explores.                   *)
(***************************************************************************)
MaxExportUrls == 5

ExportUrl(j) == [cat |-> "amazon", num |-> j]

ExportInit ==
    /\ spc = "loop"
    /\ \E n \in 1..MaxExportUrls :
          /\ urls = [j \in 1..n |-> ExportUrl(j)]
          /\ \E cached \in SUBSET (1..n) :
                /\ scraped \in
                     {[j \in 1..Len(ks) |->
                          [k |-> ExportUrl(ks[j]), v |-> FreshRecord(ExportUrl(ks[j]))]] :
                        ks \in {s \in OrderedSubsets(cached) : Len(s) = Cardinality(cached)}}
                /\ ok = Cardinality(cached)
                /\ fail = n - Cardinality(cached)
                /\ processed = [j \in 1..n |->
                                   [url |-> ExportUrl(j),
                                    how |-> IF j \in cached THEN "extracted"
                                            ELSE "failed"]]
          /\ urls_file = FileOf(urls)
          /\ pos = n + 1
    /\ shape = "dict"
    /\ cache_st = "unread"
    /\ overwrite = FALSE
    /\ no_resume = FALSE
    /\ use_cache = FALSE
    /\ disk = AbsentFile
    /\ loaded = <<>>
    /\ fetched = <<>>
    /\ questions = <<>>
    /\ split_size = NoSplit
    /\ out_files = <<>>
    /\ exit_code = -1

(***************************************************************************)
(* The URL collector.  Anchor texts and the keyword are sequences of       *)
(* characters; a URL is [origin, path].                                    *)
(***************************************************************************)
\* str.lower()
LowerChar(c) == CASE c = "A" -> "a" [] c = "B" -> "b" [] OTHER -> c

Lower(t) == [j \in 1..Len(t) |-> LowerChar(t[j])]

\* str.strip()
RECURSIVE StripLeft(_)
StripLeft(t) ==
    IF t # <<>> /\ Head(t) = " " THEN StripLeft(Tail(t)) ELSE t

RECURSIVE StripRight(_)
StripRight(t) ==
    IF t # <<>> /\ t[Len(t)] = " " THEN StripRight(SubSeq(t, 1, Len(t) - 1)) ELSE t

StripChars(t) == StripRight(StripLeft(t))

\* needle in hay
Contains(hay, needle) ==
    \E j \in 0..(Len(hay) - Len(needle)) :
        SubSeq(hay, j + 1, j + Len(needle)) = needle

Site == "https://www.examtopics.com"

\* cli.py 14-15: the list pages https://www.examtopics.com/discussions/<category>/<p>
PageUrl(p) == [origin |-> Site, path |-> <<"discussions", "amazon", p>>]

\* scrape.py 22-31
normalize_discussion_url(base_url, href) ==
    CASE href.kind = "abs"    -> [origin |-> href.origin, path |-> href.path]
      [] href.kind = "rooted" -> [origin |-> base_url.origin, path |-> href.path]
      [] OTHER                -> [origin |-> base_url.origin,
                                  path |-> base_url.path \o href.path]

\* scrape.py 44
TargetOf(kw) == Lower(StripChars(kw))

\* scrape.py 57 (faulty variant): the anchor text is not lower-cased
KeepsAnchorCaseSensitive(a, target) ==
    /\ a.href.kind # "none"
    /\ (target = <<>> \/ Contains(a.text, target))

\* scrape.py 55-58: an anchor without href is skipped; with a non-empty
\* target the lower-cased anchor text must contain it
KeepsAnchor(a, target) ==
    /\ a.href.kind # "none"
    /\ (target = <<>> \/ Contains(Lower(a.text), target))

\* scrape.py 47-60
RECURSIVE fetch_one(_, _, _)
fetch_one(url, anchors, target) ==
    IF anchors = <<>> THEN <<>>
    ELSE (IF KeepsAnchor(Head(anchors), target)
          THEN <<normalize_discussion_url(url, Head(anchors).href)>>
          ELSE <<>>) \o fetch_one(url, Tail(anchors), target)

NPages == 2

MaxWorkers == 2

Pages == 1..NPages

NoHref == [kind |-> "none", origin |-> "", path |-> <<>>]
AbsHref(path) == [kind |-> "abs", origin |-> Site, path |-> path]
RootedHref(path) == [kind |-> "rooted", origin |-> "", path |-> path]
RelHref(path) == [kind |-> "rel", origin |-> "", path |-> path]

Anchor(text, href) == [text |-> text, href |-> href]

\* the list pages the site can serve
PageMenu ==
    {<<>>,
     <<Anchor(<<"A", "b">>, RootedHref(<<"d", 1>>))>>,
     <<Anchor(<<"a", " ", "b">>, AbsHref(<<"d", 1>>)),
       Anchor(<<"c">>, RootedHref(<<"d", 2>>))>>,
     <<Anchor(<<"b">>, RelHref(<<"d", 1>>)),
       Anchor(<<"A", "b">>, NoHref),
       Anchor(<<"B", "a">>, RootedHref(<<"d", 1>>))>>,
     <<Anchor(<<"c">>, RootedHref(<<"d", 2>>)),
       Anchor(<<"a">>, RootedHref(<<"d", 3>>)),
       Anchor(<<"c">>, AbsHref(<<"d", 2>>))>>}

Keywords == {<<>>, <<"a">>, <<"B">>, <<"b", " ">>, <<" ">>}

CollectIdle ==
    /\ cpc = "idle"
    /\ keyword = <<>>
    /\ max_workers = 0
    /\ continue_on_error = FALSE
    /\ task = <<>>
    /\ content = <<>>
    /\ result = <<>>
    /\ completion = <<>>
    /\ snapshot = {}
    /\ consumed = <<>>
    /\ out = <<>>
    /\ failed_pages = <<>>
    /\ uniq = <<>>

\* scrape.py 34-45, 62
CollectInit ==
    /\ cpc = "submit"
    /\ keyword \in Keywords
    /\ max_workers \in 1..MaxWorkers
    /\ continue_on_error \in BOOLEAN
    /\ task = [p \in Pages |-> "new"]
    /\ content = [p \in Pages |-> <<>>]
    /\ result = [p \in Pages |-> <<>>]
    /\ completion = <<>>
    /\ snapshot = {}
    /\ consumed = <<>>
    /\ out = <<>>
    /\ failed_pages = <<>>
    /\ uniq = <<>>

Finished(p) == task[p] \in {"ok", "failed"}

\* scrape.py 63: ex.submit(fetch_one, u), in list order
Submit ==
    /\ cpc = "submit"
    /\ \E p \in Pages :
          /\ task[p] = "new"
          /\ \A r \in Pages : r < p => task[r] # "new"
          /\ task' = [task EXCEPT ![p] = "queued"]
    /\ UNCHANGED <<cpc, keyword, max_workers, continue_on_error, content,
                   result, completion, snapshot, consumed, out, failed_pages,
                   uniq>>
    /\ UNCHANGED notCollect

\* scrape.py 62: a worker thread of the pool takes the oldest queued task;
\* at most max_workers tasks run at a time.  The pool goes on doing so
\* until the executor has shut down (the end of the "with" block, also when
\* the block is left by an exception: shutdown(wait=True) cancels nothing).
WorkerStart ==
    /\ cpc \in {"submit", "iterate", "aborting"}
    /\ Cardinality({r \in Pages : task[r] = "running"}) < max_workers
    /\ \E p \in Pages :
          /\ task[p] = "queued"
          /\ \A r \in Pages : r < p => task[r] # "queued"
          /\ task' = [task EXCEPT ![p] = "running"]
    /\ UNCHANGED <<cpc, keyword, max_workers, continue_on_error, content,
                   result, completion, snapshot, consumed, out, failed_pages,
                   uniq>>
    /\ UNCHANGED notCollect

\* scrape.py 47-60: fetch_one returns the links of the page
WorkerDone ==
    /\ \E p \in Pages : \E anchors \in PageMenu :
          /\ task[p] = "running"
          /\ task' = [task EXCEPT ![p] = "ok"]
          /\ content' = [content EXCEPT ![p] = anchors]
          /\ result' = [result EXCEPT
                          ![p] = fetch_one(PageUrl(p), anchors, TargetOf(keyword))]
          /\ completion' = Append(completion, p)
    /\ UNCHANGED <<cpc, keyword, max_workers, continue_on_error, snapshot,
                   consumed, out, failed_pages, uniq>>
    /\ UNCHANGED notCollect

\* scrape.py 48: polite_get raises inside fetch_one
WorkerFail ==
    /\ \E p \in Pages :
          /\ task[p] = "running"
          /\ task' = [task EXCEPT ![p] = "failed"]
          /\ completion' = Append(completion, p)
    /\ UNCHANGED <<cpc, keyword, max_workers, continue_on_error, content,
                   result, snapshot, consumed, out, failed_pages, uniq>>
    /\ UNCHANGED notCollect

\* scrape.py 64-65: as_completed(futures) starts; the futures that are
\* already complete are set aside to be yielded first
StartIterate ==
    /\ cpc = "submit"
    /\ \A p \in Pages : task[p] # "new"
    /\ snapshot' = {p \in Pages : Finished(p)}
    /\ cpc' = "iterate"
    /\ UNCHANGED <<keyword, max_workers, continue_on_error, task, content,
                   result, completion, consumed, out, failed_pages, uniq>>
    /\ UNCHANGED notCollect

\* the futures as_completed can yield next: those of the snapshot in any
\* order (it iterates a set), then the others in the order they complete
Yieldable ==
    LET early == snapshot \ Range(consumed)
        late  == {j \in 1..Len(completion) : completion[j] \notin Range(consumed)}
    IN  IF early # {} THEN early
        ELSE IF late # {} THEN {completion[Min(late)]}
        ELSE {}

\* scrape.py 70 (faulty variant): out = fut.result()
ExtendOverwrites(acc, links) == links

\* scrape.py 70: out.extend(fut.result())
Extend(acc, links) == acc \o links

\* scrape.py 64-70: the next future holds a result
ConsumeOk ==
    /\ cpc = "iterate"
    /\ \E p \in Yieldable :
          /\ task[p] = "ok"
          /\ out' = Extend(out, result[p])
          /\ consumed' = Append(consumed, p)
    /\ UNCHANGED <<cpc, keyword, max_workers, continue_on_error, task,
                   content, result, completion, snapshot, failed_pages, uniq>>
    /\ UNCHANGED notCollect

\* scrape.py 70: fut.result() re-raises the exception of fetch_one; it leaves
\* the "with" block, whose exit waits for the pool
ConsumeFailRaise ==
    /\ cpc = "iterate"
    /\ ~continue_on_error
    /\ \E p \in Yieldable :
          /\ task[p] = "failed"
          /\ consumed' = Append(consumed, p)
    /\ cpc' = "aborting"
    /\ UNCHANGED <<keyword, max_workers, continue_on_error, task, content,
                   result, completion, snapshot, out, failed_pages, uniq>>
    /\ UNCHANGED notCollect

\* continue_on_error: the failing page is recorded and the loop goes on
ConsumeFailContinue ==
    /\ cpc = "iterate"
    /\ continue_on_error
    /\ \E p \in Yieldable :
          /\ task[p] = "failed"
          /\ failed_pages' = Append(failed_pages, PageUrl(p))
          /\ consumed' = Append(consumed, p)
    /\ UNCHANGED <<cpc, keyword, max_workers, continue_on_error, task,
                   content, result, completion, snapshot, out, uniq>>
    /\ UNCHANGED notCollect

\* scrape.py 72-80: every future was consumed; de-duplicate and return
Return ==
    /\ cpc = "iterate"
    /\ Len(consumed) = NPages
    /\ uniq' = Dedup(out)
    /\ cpc' = "done"
    /\ UNCHANGED <<keyword, max_workers, continue_on_error, task, content,
                   result, completion, snapshot, consumed, out, failed_pages>>
    /\ UNCHANGED notCollect

\* scrape.py 62-70: the pool has run every task; the exception reaches the caller
Raise ==
    /\ cpc = "aborting"
    /\ \A p \in Pages : Finished(p)
    /\ cpc' = "raised"
    /\ UNCHANGED <<keyword, max_workers, continue_on_error, task, content,
                   result, completion, snapshot, consumed, out, failed_pages,
                   uniq>>
    /\ UNCHANGED notCollect

CmdIdle ==
    /\ collect_exit_code = -1
    /\ urls_out = <<>>
    /\ failed_out = <<>>

\* cli.py 35-48: the collector returned; the failed list pages and the URLs
\* are written and the command returns 0
CollectUrlsReturn ==
    /\ cpc = "done"
    /\ collect_exit_code = -1
    /\ failed_out' = failed_pages
    /\ urls_out' = uniq
    /\ collect_exit_code' = 0
    /\ UNCHANGED notCmd

\* cli.py 27-33, 209-215: the collector raised; nothing catches the
\* exception, the interpreter ends with status 1 and nothing is written
CollectUrlsUncaught ==
    /\ cpc = "raised"
    /\ collect_exit_code = -1
    /\ collect_exit_code' = 1
    /\ UNCHANGED <<urls_out, failed_out>>
    /\ UNCHANGED notCmd

CollectNext ==
    \/ Submit
    \/ WorkerStart
    \/ WorkerDone
    \/ WorkerFail
    \/ StartIterate
    \/ ConsumeOk
    \/ ConsumeFailRaise
    \/ ConsumeFailContinue
    \/ Return
    \/ Raise
    \/ CollectUrlsReturn
    \/ CollectUrlsUncaught

(***************************************************************************)
(* Fetch client: polite_get over a session whose adapter carries           *)
(* Retry(total = connect = read = status = cfg.retries,                    *)
(*       status_forcelist = (429, 500, 502, 503, 504),                     *)
(*       raise_on_status = False, respect_retry_after_header = True).      *)
(* Durations are in tenths of a second.                                    *)
(***************************************************************************)
MaxRetries == 4

\* the redirects the session follows before it gives up
MaxHops == 1

backoff_factor == 6

status_forcelist == {429, 500, 502, 503, 504}

\* the statuses Retry retries when the response carries Retry-After
RETRY_AFTER_STATUS_CODES == {413, 429, 503}

\* the statuses the session treats as a redirect when Location is present
REDIRECT_STATI == {301, 302, 303, 307, 308}

NoHeader == [present |-> FALSE, seconds |-> 0]

RetryAfterHeaders ==
    {NoHeader, [present |-> TRUE, seconds |-> 0], [present |-> TRUE, seconds |-> 3]}

Statuses == {200, 302, 304, 404, 413, 429, 500, 503}

Responses ==
    [status : Statuses, retry_after : RetryAfterHeaders, location : BOOLEAN]

\* connect: the connection could not be made (refused, connect timeout)
\* read:    the connection broke or timed out after the request was sent
\* other:   any other transport error (TLS)
Errors == {"connect", "read", "other"}

NewRetry(n) == [total |-> n, connect |-> n, read |-> n, status |-> n, history |-> 0]

NoRetry == [total |-> 0, connect |-> 0, read |-> 0, status |-> 0, history |-> 0]

NoWait == [cause |-> "none", status |-> 0, retry_after |-> NoHeader,
           source |-> "none", tenths |-> 0]

NoOutcome == [kind |-> "none", status |-> 0]

\* Retry.increment: one less in total and in the counter of the cause
increment(r, cause) ==
    [total   |-> r.total - 1,
     connect |-> IF cause = "connect" THEN r.connect - 1 ELSE r.connect,
     read    |-> IF cause = "read" THEN r.read - 1 ELSE r.read,
     status  |-> IF cause = "status" THEN r.status - 1 ELSE r.status,
     history |-> r.history + 1]

\* Retry.is_exhausted: some counter fell below zero
is_exhausted(r) == \E x \in {r.total, r.connect, r.read, r.status} : x < 0

\* Retry.is_retry for a GET
is_retry(r, st, has_retry_after) ==
    \/ st \in status_forcelist
    \/ (r.total # 0 /\ has_retry_after /\ st \in RETRY_AFTER_STATUS_CODES)

\* Retry.get_backoff_time: nothing before the second consecutive failure
\* (the 120 s ceiling is out of reach for the retry counts considered)
get_backoff_time(r) ==
    IF r.history <= 1 THEN 0 ELSE backoff_factor * 2 ^ (r.history - 1)

\* Retry.sleep: the Retry-After seconds if the header gives a non-zero
\* value, the backoff otherwise
sleep(r, header) ==
    IF header.present /\ header.seconds # 0
    THEN [source |-> "retry_after", tenths |-> 10 * header.seconds]
    ELSE [source |-> "backoff", tenths |-> get_backoff_time(r)]

is_redirect(resp) == resp.location /\ resp.status \in REDIRECT_STATI

\* Response.raise_for_status raises for 4xx and 5xx
RaisesForStatus(st) == 400 <= st /\ st < 600

\* the response urlopen hands back: one it does not retry, or the last one
\* when the retries are exhausted (raise_on_status = False)
HandsBack(resp) ==
    \/ ~is_retry(retry, resp.status, resp.retry_after.present)
    \/ is_exhausted(increment(retry, "status"))

FetchIdle ==
    /\ fpc = "idle"
    /\ cfg_retries = 0
    /\ retry = NoRetry
    /\ attempts = 0
    /\ hops = 0
    /\ last_retry = NoWait
    /\ outcome = NoOutcome

FetchInit ==
    /\ fpc = "start"
    /\ cfg_retries \in 0..MaxRetries
    /\ retry = NoRetry
    /\ attempts = 0
    /\ hops = 0
    /\ last_retry = NoWait
    /\ outcome = NoOutcome

\* polite_get up to the first request of sess.get
SessGet ==
    /\ fpc = "start"
    /\ fpc' = "request"
    /\ retry' = NewRetry(cfg_retries)
    /\ UNCHANGED <<cfg_retries, attempts, hops, last_retry, outcome>>
    /\ UNCHANGED notFetch

\* the server answers with a status Retry reacts to, and retries are left
StatusRetry ==
    /\ fpc = "request"
    /\ \E resp \in Responses :
          /\ is_retry(retry, resp.status, resp.retry_after.present)
          /\ ~is_exhausted(increment(retry, "status"))
          /\ retry' = increment(retry, "status")
          /\ last_retry' = [cause |-> "status", status |-> resp.status,
                            retry_after |-> resp.retry_after,
                            source |-> sleep(retry', resp.retry_after).source,
                            tenths |-> sleep(retry', resp.retry_after).tenths]
    /\ attempts' = attempts + 1
    /\ UNCHANGED <<fpc, cfg_retries, hops, outcome>>
    /\ UNCHANGED notFetch

\* the request fails in transport, and retries are left
ErrorRetry ==
    /\ fpc = "request"
    /\ \E e \in Errors :
          /\ ~is_exhausted(increment(retry, e))
          /\ retry' = increment(retry, e)
          /\ last_retry' = [cause |-> e, status |-> 0, retry_after |-> NoHeader,
                            source |-> sleep(retry', NoHeader).source,
                            tenths |-> sleep(retry', NoHeader).tenths]
    /\ attempts' = attempts + 1
    /\ UNCHANGED <<fpc, cfg_retries, hops, outcome>>
    /\ UNCHANGED notFetch

\* the request fails in transport and the retries are exhausted: the
\* adapter raises a requests exception out of sess.get
ErrorExhausted ==
    /\ fpc = "request"
    /\ \E e \in Errors :
          /\ is_exhausted(increment(retry, e))
          /\ retry' = increment(retry, e)
          /\ outcome' = [kind |-> "raised", status |-> 0]
    /\ attempts' = attempts + 1
    /\ fpc' = "done"
    /\ UNCHANGED <<cfg_retries, hops, last_retry>>
    /\ UNCHANGED notFetch

\* the session follows a redirect: a new request with a fresh Retry
FollowRedirect ==
    /\ fpc = "request"
    /\ hops < MaxHops
    /\ \E resp \in Responses :
          /\ HandsBack(resp)
          /\ is_redirect(resp)
    /\ hops' = hops + 1
    /\ retry' = NewRetry(cfg_retries)
    /\ attempts' = 0
    /\ last_retry' = NoWait
    /\ UNCHANGED <<fpc, cfg_retries, outcome>>
    /\ UNCHANGED notFetch

\* one redirect too many: the session raises TooManyRedirects
TooManyRedirects ==
    /\ fpc = "request"
    /\ hops = MaxHops
    /\ \E resp \in Responses :
          /\ HandsBack(resp)
          /\ is_redirect(resp)
    /\ attempts' = attempts + 1
    /\ outcome' = [kind |-> "raised", status |-> 0]
    /\ fpc' = "done"
    /\ UNCHANGED <<cfg_retries, retry, hops, last_retry>>
    /\ UNCHANGED notFetch

\* sess.get returns a 4xx or 5xx response and raise_for_status raises
RaiseForStatus ==
    /\ fpc = "request"
    /\ \E resp \in Responses :
          /\ HandsBack(resp)
          /\ ~is_redirect(resp)
          /\ RaisesForStatus(resp.status)
          /\ outcome' = [kind |-> "raised", status |-> resp.status]
    /\ attempts' = attempts + 1
    /\ fpc' = "done"
    /\ UNCHANGED <<cfg_retries, retry, hops, last_retry>>
    /\ UNCHANGED notFetch

\* sess.get returns a response raise_for_status lets through
ReturnResponse ==
    /\ fpc = "request"
    /\ \E resp \in Responses :
          /\ HandsBack(resp)
          /\ ~is_redirect(resp)
          /\ ~RaisesForStatus(resp.status)
          /\ outcome' = [kind |-> "returned", status |-> resp.status]
    /\ attempts' = attempts + 1
    /\ fpc' = "done"
    /\ UNCHANGED <<cfg_retries, retry, hops, last_retry>>
    /\ UNCHANGED notFetch

FetchNext ==
    \/ SessGet
    \/ StatusRetry
    \/ ErrorRetry
    \/ ErrorExhausted
    \/ FollowRedirect
    \/ TooManyRedirects
    \/ RaiseForStatus
    \/ ReturnResponse

(***************************************************************************)
(* The extraction pipeline: a discussion page is parsed                    *)
(* (parse_discussion_page), turned into a question record                  *)
(* (parsed_to_question_dict) and normalized (normalize_question_dict).     *)
(*                                                                         *)
(* A page is what the selectors of parse_discussion_page see of it:        *)
(*   question   the text of the question element (get_text(" ", strip))    *)
(*   discussion the text of the discussion element, or NoText              *)
(*   sel1..sel3 the <li> elements matched by ".question-choices li",       *)
(*              "ul.choices li" and "li.multi-choice-item"                 *)
(* An <li> is [span, prefix, body]: the text of a .choice-letter child     *)
(* ("None" without one), a leading marker such as "A." and the rest.       *)
(***************************************************************************)
NoText == [lead |-> FALSE, words |-> <<"None">>, trail |-> FALSE]

TextOf(ws) == [lead |-> FALSE, words |-> ws, trail |-> FALSE]

\* li.get_text(" ", strip=True), as words
LiText(li) ==
    (IF li.span = "None" THEN <<>> ELSE <<li.span>>)
    \o (IF li.prefix = "" THEN <<>> ELSE <<li.prefix>>)
    \o (IF li.body = "" THEN <<>> ELSE <<li.body>>)

\* scrape.py 308: ^\s*([A-Z])[\.\)\:]\s*(.+)$ matches the text of the <li>
\* (an upper-case letter, a mark, and something after it)
LabelInText(li) ==
    /\ li.span = "None"
    /\ li.prefix \in {"A.", "B)"}
    /\ li.body # ""

UpperOf(c) == CASE c = "a." -> "A." [] c = "c" -> "C" [] OTHER -> c

FirstLetter(prefix) == CASE prefix = "A." -> "A" [] prefix = "B)" -> "B" [] OTHER -> "?"

\* scrape.py 316: the span holds exactly one letter
IsOneLetter(c) == c \in {"A", "B", "C", "D"}

\* scrape.py 307-317
LiLabel(li) ==
    IF LabelInText(li) THEN FirstLetter(li.prefix)
    ELSE IF li.span # "None" /\ IsOneLetter(UpperOf(li.span)) THEN UpperOf(li.span)
    ELSE "None"

\* scrape.py 311: the text after the label when the label was in the text
LiChoiceText(li) == IF LabelInText(li) THEN <<li.body>> ELSE LiText(li)

\* scrape.py 281-285: the first selector that matches anything
choice_els(page) ==
    IF page.sel1 # <<>> THEN page.sel1
    ELSE IF page.sel2 # <<>> THEN page.sel2
    ELSE page.sel3

\* scrape.py 90-101
strip_suggested_answer_ui(t) ==
    LET s2 == CutFrom(t, {ShowTok, HideTok})
    IN  IF s2 # t THEN Strip(s2) ELSE Strip(CutFrom(t, {SuggTok}))

\* scrape.py 104-116
strip_inline_choices_from_text(t) == Strip(StripInlineChoices(t))

\* scrape.py 119-147: the same two searches and the same de-duplication as
\* scraper_export.py 59-71
extract_answer_labels(t) == LabelsOf(t)

\* scrape.py 294: f"{q_text_raw} {discussion_text or ''}"
meta_text(page) ==
    TextOf(page.question.words
           \o (IF page.discussion = NoText THEN <<>> ELSE page.discussion.words))

\* scrape.py 294-296: the labels found in question text + " " + discussion
correct_labels(page) ==
    Range(LabelsOf(TextOf(page.question.words
                          \o (IF page.discussion = NoText THEN <<>>
                              ELSE page.discussion.words))))

\* the matches of  \bupvoted\s+(\d+)\s+times?\b  (scrape.py 162), each a word
Up2  == "upvoted 2 times"
Up5  == "upvoted 5 times"
Up20 == "upvoted 20 times"

VoteMarks == {Up2, Up5, Up20}

\* scrape.py 175-178: int(m.group(1))
VotesOf(w) == CASE w = Up2 -> 2 [] w = Up5 -> 5 [] w = Up20 -> 20

\* scrape.py 169-181: the stripped text between two matches is a block when
\* it is not empty; the text after the last match is not looked at
RECURSIVE BlocksFrom(_, _, _)
BlocksFrom(ws, i, cur) ==
    IF i > Len(ws) THEN <<>>
    ELSE IF ws[i] \in VoteMarks
         THEN (IF cur # <<>>
               THEN <<[votes |-> VotesOf(ws[i]), block |-> cur]>> ELSE <<>>)
              \o BlocksFrom(ws, i + 1, <<>>)
         ELSE BlocksFrom(ws, i + 1, Append(cur, ws[i]))

\* scrape.py 186 (faulty variant): of the blocks with the most votes, the last
BestLast(blocks) ==
    CHOOSE j \in 1..Len(blocks) :
        /\ \A k \in 1..Len(blocks) : blocks[k].votes <= blocks[j].votes
        /\ \A k \in (j + 1)..Len(blocks) : blocks[k].votes < blocks[j].votes

\* scrape.py 186: max(blocks, key=lambda x: x[0]) returns the first of the
\* blocks with the most votes
Best(blocks) ==
    CHOOSE j \in 1..Len(blocks) :
        /\ \A k \in 1..Len(blocks) : blocks[k].votes <= blocks[j].votes
        /\ \A k \in 1..(j - 1) : blocks[k].votes < blocks[j].votes

\* scrape.py 232: f"Top voted ({votes} votes)"
TopVotedHeader(votes) ==
    CASE votes = 2  -> "Top voted (2 votes)"
      [] votes = 5  -> "Top voted (5 votes)"
      [] votes = 20 -> "Top voted (20 votes)"

\* scrape.py 188-242 for a block of plain words: the first word of a block
\* of several words is shown as the author, the rest as the body
FormatBlock(votes, block) ==
    TextOf(<<TopVotedHeader(votes)>>
           \o (IF Len(block) >= 2 THEN <<"author:">> ELSE <<>>)
           \o block)

\* scrape.py 150-242: None without a text; without a match the trimmed text;
\* else the formatted block with the most votes, None if no block is left
format_top_voted_explanation(d) ==
    IF d = NoText \/ d.words = <<>> THEN NoText
    ELSE IF Range(d.words) \cap VoteMarks = {} THEN Strip(d)
    ELSE LET blocks == BlocksFrom(d.words, 1, <<>>)
         IN  IF blocks = <<>> THEN NoText
             ELSE FormatBlock(blocks[Best(blocks)].votes,
                              blocks[Best(blocks)].block)

Placeholder ==
    [label |-> "None", text |-> <<"N/A (could not parse choices)">>,
     is_correct |-> FALSE]

\* scrape.py 301-320: one choice per <li> with a non-empty text
RECURSIVE ParseChoices(_, _)
ParseChoices(els, labels) ==
    IF els = <<>> THEN <<>>
    ELSE (IF LiText(Head(els)) = <<>> THEN <<>>
          ELSE <<[label |-> LiLabel(Head(els)),
                  text |-> LiChoiceText(Head(els)),
                  is_correct |-> (LiLabel(Head(els)) # "None"
                                  /\ LiLabel(Head(els)) \in labels)]>>)
         \o ParseChoices(Tail(els), labels)

\* scrape.py 322-324 (faulty variant): no placeholder is substituted
OrPlaceholderNever(choices) == choices

\* scrape.py 322-324
OrPlaceholder(choices) == IF choices = <<>> THEN <<Placeholder>> ELSE choices

\* scrape.py 245-332
parse_discussion_page(page) ==
    [text |-> strip_inline_choices_from_text(strip_suggested_answer_ui(page.question)),
     choices |-> OrPlaceholder(ParseChoices(choice_els(page), correct_labels(page))),
     explanation |-> format_top_voted_explanation(page.discussion),
     q_index |-> 1]

\* chr(ord("A") + idx0)
LetterAt(idx0) == <<"A", "B", "C", "D", "E">>[idx0 + 1]

\* scraper_export.py 10-14
choice_id_for(label, idx0) == IF label # "None" THEN label ELSE LetterAt(idx0)

\* scraper_export.py 28-32: the ids of the choices flagged correct
RECURSIVE AnswerIds(_, _)
AnswerIds(choices, idx0) ==
    IF choices = <<>> THEN <<>>
    ELSE (IF Head(choices).is_correct
          THEN <<choice_id_for(Head(choices).label, idx0)>> ELSE <<>>)
         \o AnswerIds(Tail(choices), idx0 + 1)

\* scraper_export.py 25-47
parsed_to_question_dict(url, p) ==
    LET answer_ids == AnswerIds(p.choices, 0)
    IN  [id |-> question_id_from_url(url, p.q_index),
         text |-> p.text,
         choices |-> [j \in 1..Len(p.choices) |->
                         [id |-> choice_id_for(p.choices[j].label, j - 1),
                          text |-> p.choices[j].text]],
         answer_choice_ids |-> IF answer_ids = <<>> THEN NoneList ELSE answer_ids,
         is_multi_select |-> IF Len(answer_ids) > 1 \/ HasChoosePhrase(p.text)
                             THEN "true" ELSE "false",
         explanation |-> p.explanation,
         tags |-> "None"]

MaxChoices == 2

Lis == [span : {"None", "c"}, prefix : {"", "A.", "B)", "a."}, body : {"", "x"}]

QuestionTexts ==
    {TextOf(<<Filler>>),
     TextOf(<<Filler, ChooseTok>>),
     TextOf(<<Filler, ChooseDotTok>>),
     TextOf(<<Filler, CorrTok, "AC">>),
     TextOf(<<Filler, SuggTok, "C">>),
     TextOf(<<Filler, ShowTok, SuggTok, "A">>)}

DiscussionTexts == {NoText, TextOf(<<"vote">>), TextOf(<<SuggTok, "A,", "C">>)}

FallbackLis == {<<>>, <<[span |-> "None", prefix |-> "A.", body |-> "x"]>>}

DiscussionPages ==
    [question : QuestionTexts, discussion : DiscussionTexts,
     sel1 : SeqsUpTo(Lis, MaxChoices), sel2 : FallbackLis, sel3 : FallbackLis]

NoPage == [question |-> NoText, discussion |-> NoText,
           sel1 |-> <<>>, sel2 |-> <<>>, sel3 |-> <<>>]

NoParsed == [text |-> NoText, choices |-> <<>>, explanation |-> NoText, q_index |-> 0]

NoDict == [id |-> <<>>, text |-> NoText, choices |-> <<>>,
           answer_choice_ids |-> NoneList, is_multi_select |-> NoneBool,
           explanation |-> NoText, tags |-> "None"]

DiscussionUrl == [cat |-> "amazon", num |-> 1]

ExtractIdle ==
    /\ xpc = "idle"
    /\ html = NoPage
    /\ pq = NoParsed
    /\ qdict = NoDict
    /\ qnorm = NoDict

ExtractInit ==
    /\ xpc = "html"
    /\ html \in DiscussionPages
    /\ pq = NoParsed
    /\ qdict = NoDict
    /\ qnorm = NoDict

\* scrape.py 335-338
Parse ==
    /\ xpc = "html"
    /\ pq' = parse_discussion_page(html)
    /\ xpc' = "parsed"
    /\ UNCHANGED <<html, qdict, qnorm>>
    /\ UNCHANGED notExtract

\* cli.py 101
ToDict ==
    /\ xpc = "parsed"
    /\ qdict' = parsed_to_question_dict(DiscussionUrl, pq)
    /\ xpc' = "record"
    /\ UNCHANGED <<html, pq, qnorm>>
    /\ UNCHANGED notExtract

\* cli.py 114
Normalize ==
    /\ xpc = "record"
    /\ qnorm' = normalize_question_dict(qdict)
    /\ xpc' = "normalized"
    /\ UNCHANGED <<html, pq, qdict>>
    /\ UNCHANGED notExtract

ExtractNext == Parse \/ ToDict \/ Normalize

(***************************************************************************)
(* The question-set loader (parse_question_set).                           *)
(*                                                                         *)
(* A JSON object is a record; a key the object does not have is a field    *)
(* the record does not have.  JSON strings are strings, null is "None"     *)
(* (NoneList for a list-valued field) and "<number>" stands for a value    *)
(* that is not a string.  JSON lists are sequences.                        *)
(***************************************************************************)
Missing == "<missing>"

NotAString == "<number>"

\* d.get(k): the value, or None
GetOr(d, k, none) == IF k \in DOMAIN d THEN d[k] ELSE none

\* str.strip() on the strings of the documents considered
StripStr(x) == CASE x = " " -> "" [] x = " A" -> "A" [] OTHER -> x

\* question_set.py 38-47: _as_str(_require(d, k)) does not raise
RequiredStrOk(d, k) ==
    /\ k \in DOMAIN d
    /\ d[k] \notin {NotAString, "None"}
    /\ StripStr(d[k]) # ""

\* question_set.py 59-65: _as_optional_str_list raises
StrListBad(x) == x # NoneList /\ NotAString \in Range(x)

\* question_set.py 64-65: the stripped non-blank entries, None if none is left
as_optional_str_list(x) ==
    IF x = NoneList THEN NoneList
    ELSE LET kept == SelectSeq([j \in 1..Len(x) |-> StripStr(x[j])],
                               LAMBDA e : e # "")
         IN  IF kept = <<>> THEN NoneList ELSE kept

\* question_set.py 50-56
as_optional_str(x) == IF x = "None" \/ StripStr(x) = "" THEN "None" ELSE StripStr(x)

\* question_set.py 104-112: some choice of the list is rejected
ChoicesBad(cs) ==
    \E j \in 1..Len(cs) :
        \/ ~RequiredStrOk(cs[j], "id")
        \/ \E m \in 1..(j - 1) : cs[m].id = cs[j].id
        \/ ~RequiredStrOk(cs[j], "text")

\* question_set.py 114-120 (faulty variant): the answer ids are not resolved
AnswersUnknownNever(q) == FALSE

\* question_set.py 114-120: an answer id that is no choice id
AnswersUnknown(q) ==
    LET ans == as_optional_str_list(GetOr(q, "answer_choice_ids", NoneList))
    IN  /\ ans # NoneList
        /\ \E j \in 1..Len(ans) :
              ans[j] \notin {q.choices[m].id : m \in 1..Len(q.choices)}

\* question_set.py 88-125: question i of the list is rejected
QuestionBad(qs, i) ==
    \/ ~RequiredStrOk(qs[i], "id")
    \/ \E m \in 1..(i - 1) : GetOr(qs[m], "id", Missing) = qs[i].id
    \/ ~RequiredStrOk(qs[i], "text")
    \/ "choices" \notin DOMAIN qs[i]
    \/ qs[i].choices = <<>>
    \/ ChoicesBad(qs[i].choices)
    \/ StrListBad(GetOr(qs[i], "answer_choice_ids", NoneList))
    \/ AnswersUnknown(qs[i])
    \/ GetOr(qs[i], "is_multi_select", "None") \notin {"None", "true", "false"}
    \/ GetOr(qs[i], "explanation", "None") = NotAString
    \/ StrListBad(GetOr(qs[i], "tags", NoneList))

\* question_set.py 127-137
LoadedQuestion(q) ==
    [id |-> q.id,
     text |-> q.text,
     choices |-> [j \in 1..Len(q.choices) |->
                     [id |-> q.choices[j].id, text |-> q.choices[j].text]],
     answer_choice_ids |-> as_optional_str_list(GetOr(q, "answer_choice_ids", NoneList)),
     is_multi_select |-> GetOr(q, "is_multi_select", "None"),
     explanation |-> as_optional_str(GetOr(q, "explanation", "None")),
     tags |-> as_optional_str_list(GetOr(q, "tags", NoneList))]

\* question_set.py 76-125: parse_question_set raises QuestionSetFormatError
Raises(obj) ==
    \/ ~RequiredStrOk(obj, "set_id")
    \/ ~RequiredStrOk(obj, "title")
    \/ "questions" \notin DOMAIN obj
    \/ \E i \in 1..Len(obj.questions) : QuestionBad(obj.questions, i)

NoSet == [set_id |-> "None", title |-> "None", questions |-> <<>>]

\* question_set.py 76-139: the QuestionSet returned (NoSet when it raises)
parse_question_set(obj) ==
    IF Raises(obj) THEN NoSet
    ELSE [set_id |-> obj.set_id,
          title |-> obj.title,
          questions |-> [i \in 1..Len(obj.questions) |->
                            LoadedQuestion(obj.questions[i])]]

MaxLoadChoices == 2

RawChoices ==
    [id : {"A", "B", ""}, text : {"x"}]
    \cup {[id |-> "A", text |-> " "], [id |-> "A"], [text |-> "x"]}

RawAnswers == {NoneList, <<>>, <<"A">>, <<"A", "B">>, <<"C">>, <<" A">>, <<"", "A">>}

RawChoiceLists == SeqsUpTo(RawChoices, MaxLoadChoices)

RawQuestions ==
    [id : {"q1", ""}, text : {"t", ""}, choices : RawChoiceLists,
     answer_choice_ids : RawAnswers]
    \cup [text : {"t"}, choices : RawChoiceLists, answer_choice_ids : RawAnswers]
    \cup [id : {"q1"}, choices : RawChoiceLists, answer_choice_ids : RawAnswers]
    \cup [id : {"q1"}, text : {"t"}, answer_choice_ids : RawAnswers]
    \cup [id : {"q1"}, text : {"t"}, choices : RawChoiceLists]

GoodChoices == <<[id |-> "A", text |-> "x"], [id |-> "B", text |-> "y"]>>

\* a second question: same id as the first or another one, well-formed or
\* with a field of the wrong type
SecondQuestions ==
    [id : {"q1", "q2"}, text : {"t"}, choices : {GoodChoices},
     is_multi_select : {"true", NotAString}]

RawQuestionLists ==
    {<<>>} \cup {<<q>> : q \in RawQuestions}
    \cup {<<q, r>> : q \in RawQuestions, r \in SecondQuestions}

RawDocs ==
    [set_id : {"s", ""}, title : {"t", " ", NotAString}, questions : RawQuestionLists]
    \cup [title : {"t"}, questions : RawQuestionLists]
    \cup [set_id : {"s"}, questions : RawQuestionLists]
    \cup [set_id : {"s"}, title : {"t"}]

\* the records parsed_to_question_dict and normalize_question_dict produce,
\* as JSON: all seven keys, well-formed
ExportedRecords ==
    [id : {"et-1-q1", "et-2-q1"}, text : {"1+1?"}, choices : {GoodChoices},
     answer_choice_ids : {NoneList, <<"A">>, <<"A", "B">>},
     is_multi_select : {"true", "false"},
     explanation : {"None", "e"}, tags : {NoneList}]

ExportedRecordLists ==
    {<<>>} \cup {<<q>> : q \in ExportedRecords}
    \cup {<<q, r>> : q \in {x \in ExportedRecords : x.id = "et-1-q1"},
                     r \in {x \in ExportedRecords : x.id = "et-2-q1"}}

LoadIdle ==
    /\ lpc = "idle"
    /\ origin = "none"
    /\ document = NoSet
    /\ qset = NoSet
    /\ load_error = FALSE

LoadInit ==
    /\ lpc = "start"
    /\ origin = "none"
    /\ document = NoSet
    /\ qset = NoSet
    /\ load_error = FALSE

\* cli.py 134 / 145: the document is one the scrape command exported
ReceiveExported ==
    /\ lpc = "start"
    /\ \E qs \in ExportedRecordLists : document' = export_question_set("s", qs)
    /\ origin' = "export"
    /\ lpc' = "received"
    /\ UNCHANGED <<qset, load_error>>
    /\ UNCHANGED notLoad

\* question_set.py 142-147: the document is any decoded JSON object
ReceiveFile ==
    /\ lpc = "start"
    /\ document' \in RawDocs
    /\ origin' = "file"
    /\ lpc' = "received"
    /\ UNCHANGED <<qset, load_error>>
    /\ UNCHANGED notLoad

\* question_set.py 76-139
Load ==
    /\ lpc = "received"
    /\ load_error' = Raises(document)
    /\ qset' = parse_question_set(document)
    /\ lpc' = "loaded"
    /\ UNCHANGED <<origin, document>>
    /\ UNCHANGED notLoad

LoadNext == ReceiveExported \/ ReceiveFile \/ Load

NormIdle == /\ npc = "idle"
            /\ nq = NoRecord
            /\ n1 = NoRecord
            /\ n2 = NoRecord

NormInit == /\ npc = "start"
            /\ nq \in NormRecords
            /\ n1 = NoRecord
            /\ n2 = NoRecord

NormalizeOnce == /\ npc = "start"
                 /\ n1' = normalize_question_dict(nq)
                 /\ npc' = "once"
                 /\ UNCHANGED <<nq, n2>>
                 /\ UNCHANGED notNorm

NormalizeAgain == /\ npc = "once"
                  /\ n2' = normalize_question_dict(n1)
                  /\ npc' = "twice"
                  /\ UNCHANGED <<nq, n1>>
                  /\ UNCHANGED notNorm

NormNext == NormalizeOnce \/ NormalizeAgain

(***************************************************************************)
(* The top-voted resolver on its own: a discussion text is drawn and       *)
(* resolved.                                                               *)
(***************************************************************************)
MaxVoteWords == 4

VoteWords == {"alice", "x"} \cup VoteMarks

VoteTexts ==
    {[lead |-> l, words |-> ws, trail |-> FALSE] :
        l \in BOOLEAN, ws \in SeqsUpTo(VoteWords, MaxVoteWords)}

VoteIdle ==
    /\ tpc = "idle"
    /\ discussion_text = NoText
    /\ top_voted = NoText

VoteInit ==
    /\ tpc = "start"
    /\ discussion_text \in VoteTexts
    /\ top_voted = NoText

\* scrape.py 290-291: explanation = _format_top_voted_explanation(discussion_text)
Resolve ==
    /\ tpc = "start"
    /\ top_voted' = format_top_voted_explanation(discussion_text)
    /\ tpc' = "done"
    /\ UNCHANGED discussion_text
    /\ UNCHANGED notVote

(***************************************************************************)
(* Progress API (infra/lambda/progress/index.py): one Lambda handler over  *)
(* one DynamoDB table.  Invocations run concurrently; every get_item,      *)
(* put_item, delete_item and query is one atomic step, and nothing ties    *)
(* the steps of one invocation together (no transaction, no condition      *)
(* expression).  One question set is modelled.                             *)
(***************************************************************************)
\* index.py 13
MAX_TRIALS_PER_SET == 10

\* trial ids are creation timestamps; at most this many trials are created
MaxClock == 2
MaxLimitClock == 11
\* invocations in flight at the same time
MaxInFlight == 2

Users == {"u1", "u2"}
NoSub == ""
Slots == 1..MaxInFlight
TrialIds == 1..(MaxLimitClock + 1)

NoItem == [absent |-> TRUE]
NoSummary == [absent |-> TRUE]
NoPk == <<>>

\* the progress state of a client: how many questions are answered, how
\* many of them correctly
InitialState == [answered |-> 0, correct |-> 0]
EditedState == [answered |-> 1, correct |-> 1]

\* index.py 130: pk = f"USER#{sub}"
PkShared(sub) == <<"USER", "u1">>

PkOf(sub) == <<"USER", sub>>

\* the partitions of the table, one per user
Pks == {<<"USER", u>> : u \in Users}

\* index.py 46-82: the summary counts the answered and the correct attempts
compute_summary(state) ==
    [answeredQuestions |-> state.answered,
     correctAnswers |-> state.correct,
     incorrectAnswers |-> state.answered - state.correct]

EmptyPartition ==
    [active |-> NoItem, trials |-> [t \in TrialIds |-> NoItem], legacy |-> NoItem]

NoReq ==
    [kind |-> "none", sub |-> NoSub, pk |-> NoPk, tid |-> 0, state |-> InitialState,
     pc |-> "done", active_item |-> NoItem, item |-> NoItem, items |-> <<>>,
     now |-> 0, code |-> 0]

\* a finished invocation: its status code is what remains of it
Done(r, code) == [NoReq EXCEPT !.code = code]

Stored(part) == {t \in TrialIds : part.trials[t] # NoItem}

\* index.py 404-410: the stored trials sorted by trialNumber (the sort is
\* stable and the query returns them in sort-key order): the first one
Oldest(part) ==
    IF Stored(part) = {} THEN 0
    ELSE CHOOSE t \in Stored(part) :
            \A o \in Stored(part) :
                \/ part.trials[t].trialNumber < part.trials[o].trialNumber
                \/ (part.trials[t].trialNumber = part.trials[o].trialNumber /\ t <= o)

\* index.py 297-300: the sort keys that begin with SET#<set>#: the active
\* pointer (0) and every trial, in sort-key order
RECURSIVE TrialKeysFrom(_, _)
TrialKeysFrom(part, t) ==
    IF t \notin TrialIds THEN <<>>
    ELSE (IF part.trials[t] # NoItem THEN <<t>> ELSE <<>>) \o TrialKeysFrom(part, t + 1)

SetKeys(part) ==
    (IF part.active # NoItem THEN <<0>> ELSE <<>>) \o TrialKeysFrom(part, 1)

\* index.py 394-396
TrialCount(active_item) ==
    IF active_item # NoItem THEN active_item.trialCount + 1 ELSE 1

\* index.py 401: where create-trial goes once no in_progress trial stands in the way
AfterActiveCheck(active_item) ==
    IF TrialCount(active_item) > MAX_TRIALS_PER_SET THEN "query" ELSE "put_trial"

Running(s, kind) == reqs[s].kind = kind /\ reqs[s].pc # "done"

\* index.py 376-377: the time a create-trial request reads: later than every
\* creation time stored and than those of the create-trial requests running
Now ==
    LET held == {clock} \cup {reqs[s].tid : s \in {x \in Slots : Running(x, "create")}}
    IN 1 + CHOOSE m \in held : \A o \in held : o <= m

\* one table call of invocation s: the request moves on, the table changes,
\* the call is recorded with the partition key it used
Call(s, r2, tb) ==
    /\ reqs' = [reqs EXCEPT ![s] = r2]
    /\ table' = tb
    /\ access' = access \cup {[sub |-> reqs[s].sub, pk |-> reqs[s].pk]}
    /\ clock' = IF reqs[s].kind = "create" /\ reqs[s].pc = "put_trial" /\ reqs[s].tid > clock
                THEN reqs[s].tid ELSE clock
    /\ UNCHANGED cap
    /\ UNCHANGED notProgress

PutTrial(pk, t, it) == [table EXCEPT ![pk].trials[t] = it]
PutActive(pk, it) == [table EXCEPT ![pk].active = it]

FirstStep(kind) ==
    CASE kind = "create" -> "get_active"
      [] kind = "update" -> "get_trial"
      [] kind = "complete" -> "get_trial"
      [] kind = "delete" -> "get_active"
      [] kind = "legacy_put" -> "get_active"
      [] kind = "legacy_delete" -> "query"
      [] kind = "legacy_get" -> "get_active"
      [] kind = "list" -> "query"
      [] kind = "get" -> "get_trial"

TrialKinds == {"create", "complete", "delete"}
WriteKinds == TrialKinds \cup {"update", "legacy_put", "legacy_delete"}
Kinds == WriteKinds \cup {"legacy_get", "list", "get"}

\* index.py 108-157 (and 16-21): an invocation starts.  Without a sub claim
\* it is answered 401 at once; otherwise the partition key is derived from
\* the sub and the request is routed.  create-trial takes its id from the
\* current time (376-377).
handler(s, kind, sub, tid, state) ==
    /\ reqs[s].pc = "done"
    /\ s \in cap.slots
    /\ kind \in cap.kinds
    /\ sub \in cap.subs
    /\ IF kind = "create" THEN Now <= cap.clock /\ tid = Now
       ELSE IF kind \in {"update", "complete", "delete", "get"} THEN tid \in 1..clock
       ELSE tid = 0
    /\ state = IF kind \in {"update", "legacy_put"} THEN EditedState ELSE InitialState
    /\ reqs' = [reqs EXCEPT ![s] =
            IF sub = NoSub
            THEN Done(NoReq, 401)
            ELSE [NoReq EXCEPT !.kind = kind, !.sub = sub, !.pk = PkOf(sub),
                               !.tid = tid, !.state = state,
                               !.pc = FirstStep(kind)]]
    /\ UNCHANGED <<table, clock, access, cap>>
    /\ UNCHANGED notProgress

\* index.py 363-457
handle_create_trial(s) ==
    LET r == reqs[s]
        part == table[r.pk]
        n == TrialCount(r.active_item)
    IN
    /\ Running(s, "create")
    /\ \/ /\ r.pc = "get_active"                                   \* 381
          /\ Call(s, [r EXCEPT !.active_item = part.active,
                         !.pc = IF part.active # NoItem /\ part.active.activeTrialId # 0
                                THEN "get_trial"
                                ELSE AfterActiveCheck(part.active)], table)
       \/ /\ r.pc = "get_trial"                                    \* 389-392
          /\ LET it == part.trials[r.active_item.activeTrialId] IN
             Call(s, IF it # NoItem /\ it.status = "in_progress"
                     THEN Done(r, 400)
                     ELSE [r EXCEPT !.pc = AfterActiveCheck(r.active_item)], table)
       \/ /\ r.pc = "query"                                        \* 404-410
          /\ Call(s, [r EXCEPT !.items = IF Oldest(part) = 0 THEN <<>> ELSE <<Oldest(part)>>,
                         !.pc = IF Oldest(part) = 0 THEN "put_trial" ELSE "delete"], table)
       \/ /\ r.pc = "delete"                                       \* 411
          /\ Call(s, [r EXCEPT !.items = <<>>, !.pc = "put_trial"],
                  PutTrial(r.pk, r.items[1], NoItem))
       \/ /\ r.pc = "put_trial"                                    \* 422-437
          /\ Call(s, [r EXCEPT !.pc = "put_active"],
                  PutTrial(r.pk, r.tid,
                      [trialNumber |-> n, status |-> "in_progress",
                       stateJson |-> InitialState, summary |-> NoSummary,
                       completedAt |-> 0]))
       \/ /\ r.pc = "put_active"                                   \* 440-449
          /\ Call(s, Done(r, 200),
                  PutActive(r.pk, [activeTrialId |-> r.tid, trialCount |-> n]))

\* index.py 497-544
handle_update_trial(s) ==
    LET r == reqs[s]
        part == table[r.pk]
    IN
    /\ Running(s, "update")
    /\ \/ /\ r.pc = "get_trial"                                    \* 509-516
          /\ LET it == part.trials[r.tid] IN
             Call(s, IF it = NoItem THEN Done(r, 404)
                     ELSE IF it.status = "completed" THEN Done(r, 400)
                     ELSE [r EXCEPT !.item = it, !.pc = "put_trial"], table)
       \/ /\ r.pc = "put_trial"                                    \* 527-542
          /\ Call(s, Done(r, 200),
                  PutTrial(r.pk, r.tid,
                      [trialNumber |-> r.item.trialNumber, status |-> "in_progress",
                       stateJson |-> r.state, summary |-> NoSummary,
                       completedAt |-> 0]))

\* index.py 547-632
handle_complete_trial(s) ==
    LET r == reqs[s]
        part == table[r.pk]
    IN
    /\ Running(s, "complete")
    /\ \/ /\ r.pc = "get_trial"                                    \* 560-569
          /\ LET it == part.trials[r.tid] IN
             Call(s, IF it = NoItem THEN Done(r, 404)
                     ELSE IF it.status = "completed" THEN Done(r, 400)
                     ELSE [r EXCEPT !.item = it, !.now = clock, !.pc = "put_trial"], table)
       \/ /\ r.pc = "put_trial"                                    \* 587-602
          /\ Call(s, [r EXCEPT !.item = NoItem, !.pc = "get_active"],
                  PutTrial(r.pk, r.tid,
                      [trialNumber |-> r.item.trialNumber, status |-> "completed",
                       stateJson |-> r.item.stateJson,
                       summary |-> compute_summary(r.item.stateJson),
                       completedAt |-> r.now]))
       \/ /\ r.pc = "get_active"                                   \* 605-609
          /\ Call(s, IF part.active # NoItem /\ part.active.activeTrialId = r.tid
                     THEN [r EXCEPT !.active_item = part.active, !.pc = "put_active"]
                     ELSE Done(r, 200), table)
       \/ /\ r.pc = "put_active"                                   \* 610-619
          /\ Call(s, Done(r, 200),
                  PutActive(r.pk, [activeTrialId |-> 0,
                                   trialCount |-> r.active_item.trialCount]))

\* index.py 635-664
handle_delete_trial(s) ==
    LET r == reqs[s]
        part == table[r.pk]
    IN
    /\ Running(s, "delete")
    /\ \/ /\ r.pc = "get_active"                                   \* 645-648
          /\ Call(s, IF part.active # NoItem /\ part.active.activeTrialId = r.tid
                     THEN [r EXCEPT !.active_item = part.active, !.pc = "put_active"]
                     ELSE [r EXCEPT !.pc = "delete"], table)
       \/ /\ r.pc = "put_active"                                   \* 649-659
          /\ Call(s, [r EXCEPT !.active_item = NoItem, !.pc = "delete"],
                  PutActive(r.pk, [activeTrialId |-> 0,
                                   trialCount |-> r.active_item.trialCount]))
       \/ /\ r.pc = "delete"                                       \* 661
          /\ Call(s, Done(r, 200), PutTrial(r.pk, r.tid, NoItem))

\* index.py 222-287: PUT /progress
legacy_put(s) ==
    LET r == reqs[s]
        part == table[r.pk]
    IN
    /\ Running(s, "legacy_put")
    /\ \/ /\ r.pc = "get_active"                                   \* 243-246
          /\ Call(s, IF part.active # NoItem /\ part.active.activeTrialId # 0
                     THEN [r EXCEPT !.tid = part.active.activeTrialId, !.pc = "get_trial"]
                     ELSE [r EXCEPT !.pc = "put_legacy"], table)
       \/ /\ r.pc = "get_trial"                                    \* 252-255
          /\ LET it == part.trials[r.tid] IN
             Call(s, IF it # NoItem /\ it.status = "completed" THEN Done(r, 400)
                     ELSE [r EXCEPT !.item = it, !.pc = "put_trial"], table)
       \/ /\ r.pc = "put_trial"                                    \* 257-272
          /\ Call(s, Done(r, 200),
                  PutTrial(r.pk, r.tid,
                      [trialNumber |-> IF r.item # NoItem THEN r.item.trialNumber ELSE 1,
                       status |-> "in_progress", stateJson |-> r.state,
                       summary |-> NoSummary, completedAt |-> 0]))
       \/ /\ r.pc = "put_legacy"                                   \* 276-287
          /\ Call(s, Done(r, 200),
                  [table EXCEPT ![r.pk].legacy = [stateJson |-> r.state]])

\* index.py 289-308: DELETE /progress
legacy_delete(s) ==
    LET r == reqs[s]
        part == table[r.pk]
    IN
    /\ Running(s, "legacy_delete")
    /\ \/ /\ r.pc = "query"                                        \* 296-300
          /\ Call(s, [r EXCEPT !.items = SetKeys(part),
                         !.pc = IF SetKeys(part) = <<>> THEN "delete_legacy" ELSE "delete"],
                  table)
       \/ /\ r.pc = "delete"                                       \* 301-302
          /\ Call(s, [r EXCEPT !.items = Tail(r.items),
                         !.pc = IF Tail(r.items) = <<>> THEN "delete_legacy" ELSE "delete"],
                  IF Head(r.items) = 0 THEN PutActive(r.pk, NoItem)
                  ELSE PutTrial(r.pk, Head(r.items), NoItem))
       \/ /\ r.pc = "delete_legacy"                                \* 305-308
          /\ Call(s, Done(r, 200), [table EXCEPT ![r.pk].legacy = NoItem])

\* index.py 162-220: GET /progress
legacy_get(s) ==
    LET r == reqs[s]
        part == table[r.pk]
    IN
    /\ Running(s, "legacy_get")
    /\ \/ /\ r.pc = "get_active"                                   \* 170-173
          /\ Call(s, IF part.active # NoItem /\ part.active.activeTrialId # 0
                     THEN [r EXCEPT !.tid = part.active.activeTrialId, !.pc = "get_trial"]
                     ELSE [r EXCEPT !.pc = "get_legacy"], table)
       \/ /\ r.pc = "get_trial"                                    \* 177-196
          /\ Call(s, IF part.trials[r.tid] # NoItem THEN Done(r, 200)
                     ELSE [r EXCEPT !.pc = "get_legacy"], table)
       \/ /\ r.pc = "get_legacy"                                   \* 200-220
          /\ Call(s, Done(r, IF part.legacy = NoItem THEN 404 ELSE 200), table)

\* index.py 313-360: GET /progress/trials
handle_list_trials(s) ==
    LET r == reqs[s] IN
    /\ Running(s, "list")
    /\ \/ /\ r.pc = "query"                                        \* 321-347
          /\ Call(s, [r EXCEPT !.pc = "get_active"], table)
       \/ /\ r.pc = "get_active"                                   \* 351-360
          /\ Call(s, Done(r, 200), table)

\* index.py 460-494: GET /progress/trials/{trialId}
handle_get_trial(s) ==
    LET r == reqs[s] IN
    /\ Running(s, "get")
    /\ r.pc = "get_trial"
    /\ Call(s, Done(r, IF table[r.pk].trials[r.tid] = NoItem THEN 404 ELSE 200), table)

ProgressIdle ==
    /\ table = <<>>
    /\ reqs = <<>>
    /\ clock = 0
    /\ access = {}
    /\ cap = <<>>

\* the table is empty and no invocation is running; the writing requests of
\* one user race with each other
ProgressInit ==
    /\ table = [p \in Pks |-> EmptyPartition]
    /\ reqs = [s \in Slots |-> NoReq]
    /\ clock = 0
    /\ access = {}
    /\ cap = [slots |-> Slots, kinds |-> WriteKinds, subs |-> {"u1"},
              clock |-> MaxClock]

\* two users and an unauthenticated caller send one request after the other
IsolationInit ==
    /\ table = [p \in Pks |-> EmptyPartition]
    /\ reqs = [s \in Slots |-> NoReq]
    /\ clock = 0
    /\ access = {}
    /\ cap = [slots |-> {1}, kinds |-> Kinds, subs |-> Users \cup {NoSub},
              clock |-> MaxClock]

\* one user works through the trials of one set, one request at a time
TrialsInit ==
    /\ table = [p \in Pks |-> EmptyPartition]
    /\ reqs = [s \in Slots |-> NoReq]
    /\ clock = 0
    /\ access = {}
    /\ cap = [slots |-> {1}, kinds |-> TrialKinds, subs |-> {"u1"},
              clock |-> MaxLimitClock]

Invoke ==
    \E s \in cap.slots, kind \in cap.kinds, sub \in cap.subs, tid \in 0..(clock + MaxInFlight),
       state \in {InitialState, EditedState} :
        handler(s, kind, sub, tid, state)

CreateTrial == \E s \in Slots : handle_create_trial(s)
UpdateTrial == \E s \in Slots : handle_update_trial(s)
CompleteTrial == \E s \in Slots : handle_complete_trial(s)
DeleteTrial == \E s \in Slots : handle_delete_trial(s)
LegacyPut == \E s \in Slots : legacy_put(s)
LegacyDelete == \E s \in Slots : legacy_delete(s)
LegacyGet == \E s \in Slots : legacy_get(s)
ListTrials == \E s \in Slots : handle_list_trials(s)
GetTrial == \E s \in Slots : handle_get_trial(s)

ProgressNext ==
    \/ Invoke \/ CreateTrial \/ UpdateTrial \/ CompleteTrial \/ DeleteTrial
    \/ LegacyPut \/ LegacyDelete \/ LegacyGet \/ ListTrials \/ GetTrial

WriteNext ==
    \/ Invoke \/ CreateTrial \/ UpdateTrial \/ CompleteTrial \/ DeleteTrial
    \/ LegacyPut \/ LegacyDelete

TrialsNext == Invoke \/ CreateTrial \/ CompleteTrial \/ DeleteTrial

InitNorm == NormInit /\ ScrapeIdle /\ CollectIdle /\ FetchIdle /\ ExtractIdle /\ LoadIdle /\ CmdIdle
    /\ VoteIdle
    /\ ProgressIdle

InitVote ==
    VoteInit /\ NormIdle /\ ScrapeIdle /\ CollectIdle /\ FetchIdle /\ ExtractIdle
    /\ LoadIdle /\ CmdIdle
    /\ ProgressIdle

SpecVote == InitVote /\ [][Resolve]_vars

SpecNorm == InitNorm /\ [][NormNext]_vars

InitScrape == ScrapeInit /\ NormIdle /\ CollectIdle /\ FetchIdle /\ ExtractIdle /\ LoadIdle /\ CmdIdle
    /\ VoteIdle
    /\ ProgressIdle

SpecScrape == InitScrape /\ [][ScrapeNext]_vars

InitExport == ExportInit /\ NormIdle /\ CollectIdle /\ FetchIdle /\ ExtractIdle /\ LoadIdle /\ CmdIdle
    /\ VoteIdle
    /\ ProgressIdle

\* the command left to run: it is one sequential thread, every step of it
\* returns (the fetch has timeouts and a bounded number of retries), so a step
\* that is enabled is eventually taken
MaxRunUrls == 2

InitScrapeRun == InitScrape /\ Len(read_urls(urls_file.lines)) <= MaxRunUrls

SpecScrapeRun == InitScrapeRun /\ [][ScrapeRun]_vars /\ WF_vars(ScrapeRun)

SpecExport == InitExport /\ [][Export]_vars

InitCollect == CollectInit /\ NormIdle /\ ScrapeIdle /\ FetchIdle /\ ExtractIdle /\ LoadIdle /\ CmdIdle
    /\ VoteIdle
    /\ ProgressIdle

SpecCollect == InitCollect /\ [][CollectNext]_vars

InitFetch == FetchInit /\ NormIdle /\ ScrapeIdle /\ CollectIdle /\ ExtractIdle /\ LoadIdle /\ CmdIdle
    /\ VoteIdle
    /\ ProgressIdle

SpecFetch == InitFetch /\ [][FetchNext]_vars

InitExtract == ExtractInit /\ NormIdle /\ ScrapeIdle /\ CollectIdle /\ FetchIdle /\ LoadIdle /\ CmdIdle
    /\ VoteIdle
    /\ ProgressIdle

SpecExtract == InitExtract /\ [][ExtractNext]_vars

InitLoad ==
    LoadInit /\ NormIdle /\ ScrapeIdle /\ CollectIdle /\ FetchIdle /\ ExtractIdle
    /\ CmdIdle
    /\ VoteIdle
    /\ ProgressIdle

SpecLoad == InitLoad /\ [][LoadNext]_vars

InitProgress ==
    ProgressInit /\ NormIdle /\ ScrapeIdle /\ CollectIdle /\ FetchIdle /\ ExtractIdle
    /\ LoadIdle /\ CmdIdle /\ VoteIdle

InitIsolation ==
    IsolationInit /\ NormIdle /\ ScrapeIdle /\ CollectIdle /\ FetchIdle /\ ExtractIdle
    /\ LoadIdle /\ CmdIdle /\ VoteIdle

InitTrials ==
    TrialsInit /\ NormIdle /\ ScrapeIdle /\ CollectIdle /\ FetchIdle /\ ExtractIdle
    /\ LoadIdle /\ CmdIdle /\ VoteIdle

SpecProgress == InitProgress /\ [][WriteNext]_vars

SpecIsolation == InitIsolation /\ [][ProgressNext]_vars

SpecTrials == InitTrials /\ [][TrialsNext]_vars

\* C1: normalize_question_dict is idempotent: normalizing a normalized
\* record changes no field.
C1_NormalizeIdempotent == npc = "twice" => n2 = n1

\* C2: with an existing cache, resume on and overwrite off, no fetch is
\* issued for a URL that is a key of the loaded cache, its entry in memory
\* never changes, and when the run has ended its entry in the cache file is
\* the loaded one.
C2_CachedUrlsUntouched ==
    (use_cache /\ ~no_resume /\ ~overwrite) =>
        \A u \in Keys(loaded) :
            /\ u \notin Range(fetched)
            /\ HasKey(scraped, u)
            /\ Get(scraped, u) = Get(loaded, u)
            /\ (spc = "done" =>
                    /\ disk.st = "valid"
                    /\ HasKey(disk.data, u)
                    /\ Get(disk.data, u) = Get(loaded, u))

C2_Witness ==
    /\ spc = "done"
    /\ use_cache /\ ~no_resume /\ ~overwrite
    /\ Keys(loaded) \cap Range(urls) # {}
    /\ Keys(scraped) \ Keys(loaded) # {}
    /\ fail > 0

\* a record of the in-memory cache is on disk
OnDisk(u) ==
    /\ disk.st = "valid"
    /\ HasKey(disk.data, u)
    /\ Get(disk.data, u) = Get(scraped, u)

\* C3: when a cache path is configured and the run is terminated abruptly
\* at any step, the cache file holds every record extracted or loaded so
\* far, except at most the one record in flight.
C3_CrashSafe ==
    (use_cache /\ spc = "crashed") =>
        Cardinality({u \in Keys(scraped) : ~OnDisk(u)}) <= 1

\* C4: the exported question list is the URL list, in its order, restricted
\* to the URLs in the cache, each mapped to its normalized cache record.
C4_ExportFollowsUrlOrder ==
    spc = "done" =>
        LET present == SelectSeq(urls, LAMBDA u : HasKey(scraped, u))
        IN  questions = [j \in 1..Len(present) |->
                            normalize_question_dict(Get(scraped, present[j]))]

\* the cache holds two URLs in the opposite order of the URL list, and a
\* URL of the list is missing from the cache
C4_Witness ==
    /\ spc = "done"
    /\ Len(questions) >= 2
    /\ \E a, b \in 1..Len(scraped) : \E p, q \in 1..Len(urls) :
          a < b /\ p < q /\ urls[p] = scraped[b].k /\ urls[q] = scraped[a].k
    /\ \E p \in 1..Len(urls) : ~HasKey(scraped, urls[p])
    /\ loaded # <<>>
    /\ Keys(scraped) \ Keys(loaded) # {}

\* concatenation of the question lists of the files, in file order
RECURSIVE ConcatDocs(_)
ConcatDocs(fs) ==
    IF fs = <<>> THEN <<>> ELSE Head(fs).doc.questions \o ConcatDocs(Tail(fs))

\* C5: with k > 0 and n > k the export writes ceil(n/k) files numbered from
\* 1, each non-empty with at most k questions and set_id <set_id>-<i>, whose
\* concatenation is the unsplit question list; otherwise it writes exactly
\* one file with the unsuffixed set_id.
C5_ChunkedExport ==
    spc = "done" =>
        LET n == Len(questions)
            k == split_size.n
        IN  IF split_size.given /\ k > 0 /\ n > k
            THEN /\ Len(out_files) = (n + k - 1) \div k
                 /\ \A c \in 1..Len(out_files) :
                       /\ out_files[c].name = <<"out", c>>
                       /\ out_files[c].doc.set_id = <<"set", c>>
                       /\ Len(out_files[c].doc.questions) \in 1..k
                 /\ ConcatDocs(out_files) = questions
            ELSE /\ Len(out_files) = 1
                 /\ out_files[1].name = <<"out">>
                 /\ out_files[1].doc.set_id = <<"set">>
                 /\ out_files[1].doc.questions = questions

\* five questions in chunks of two: files of 2, 2 and 1 questions
C5_Witness ==
    /\ spc = "done"
    /\ Len(questions) = 5
    /\ split_size = [given |-> TRUE, n |-> 2]
    /\ Len(out_files) = 3
    /\ Len(out_files[3].doc.questions) = 1

NoDuplicates(s) == \A a, b \in 1..Len(s) : a # b => s[a] # s[b]

\* the elements of s at the positions of their first occurrence
FirstOccurrences(s) ==
    LET keep == {j \in 1..Len(s) : \A m \in 1..(j - 1) : s[m] # s[j]}
        Nth(n) == CHOOSE j \in keep : Cardinality({m \in keep : m < j}) = n - 1
    IN  [n \in 1..Cardinality(keep) |-> s[Nth(n)]]

\* the per-page results concatenated in the page order ps
RECURSIVE ConcatResults(_)
ConcatResults(ps) ==
    IF ps = <<>> THEN <<>>
    ELSE (IF task[Head(ps)] = "ok" THEN result[Head(ps)] ELSE <<>>)
         \o ConcatResults(Tail(ps))

\* u is the resolved link of an anchor of a fetched page whose text
\* contains kw case-insensitively (an empty kw matches every anchor)
YieldedFor(u, kw) ==
    \E p \in Pages : \E j \in 1..Len(content[p]) :
        /\ task[p] = "ok"
        /\ content[p][j].href.kind # "none"
        /\ (kw = <<>> \/ Contains(Lower(content[p][j].text), Lower(kw)))
        /\ normalize_discussion_url(PageUrl(p), content[p][j].href) = u

\* C6 (as stated): the returned list has no duplicates, every URL in it is
\* a resolved link of a fetched page for an anchor whose text contains the
\* keyword case-insensitively, and each URL sits at the position of its
\* first occurrence in the completion-order concatenation.
C6_AsStated ==
    cpc = "done" =>
        /\ NoDuplicates(uniq)
        /\ \A j \in 1..Len(uniq) : YieldedFor(uniq[j], keyword)
        /\ uniq = FirstOccurrences(ConcatResults(completion))

\* C6 (amended): the returned list has no duplicates, every URL in it is a
\* resolved link of a fetched page for an anchor whose text contains,
\* case-insensitively, the keyword stripped of leading and trailing
\* whitespace, and each URL sits at the position of its first occurrence in
\* the concatenation of the page results in the order as_completed yielded
\* them.
C6_CollectedUrls ==
    cpc = "done" =>
        /\ NoDuplicates(uniq)
        /\ \A j \in 1..Len(uniq) : YieldedFor(uniq[j], StripChars(keyword))
        /\ uniq = FirstOccurrences(ConcatResults(consumed))

\* two pages yield the same URL, and an anchor is filtered out by the keyword
C6_Witness ==
    /\ cpc = "done"
    /\ Len(uniq) >= 2
    /\ Len(out) > Len(uniq)
    /\ keyword # <<>>
    /\ \E p \in Pages : \E j \in 1..Len(content[p]) :
          /\ content[p][j].href.kind # "none"
          /\ ~Contains(Lower(content[p][j].text), Lower(StripChars(keyword)))

C8_FailFastAbortsImmediately ==
    [][(cpc = "aborting" =>
            /\ \A p \in Pages : task[p] = "queued" => task'[p] = "queued"
            /\ cpc' \in {"aborting", "raised"}
            /\ uniq' = <<>>)]_vars

\* the links the pages hold for the keyword
ExpectedLinks ==
    {normalize_discussion_url(PageUrl(a[1]), content[a[1]][a[2]].href) :
        a \in {b \in Pages \X (1..3) :
                 /\ b[2] <= Len(content[b[1]])
                 /\ content[b[1]][b[2]].href.kind # "none"
                 /\ \/ StripChars(keyword) = <<>>
                    \/ Contains(Lower(content[b[1]][b[2]].text),
                                Lower(StripChars(keyword)))}}

\* C9: when every fetch succeeds, the set of returned URLs is determined by
\* the content of the list pages and the keyword alone, whatever the
\* interleaving, the completion order and the number of workers.
C9_SetIsDeterministic ==
    (cpc = "done" /\ \A p \in Pages : task[p] = "ok") =>
        Range(uniq) = ExpectedLinks

\* the pages completed in another order than they were submitted, were
\* yielded in yet another order, and two distinct URLs were returned
C9_Witness ==
    /\ cpc = "done"
    /\ \A p \in Pages : task[p] = "ok"
    /\ completion[1] # 1
    /\ consumed # completion
    /\ Cardinality(Range(uniq)) >= 2

\* C10: a fetch retries only on 429/500/502/503/504 or a connection
\* failure, sends at most retries + 1 requests, waits the Retry-After value
\* rather than the backoff when the header is present, and hands its caller
\* either a success response or an error, never another response.
C10_FetchRetryContract ==
    /\ attempts <= cfg_retries + 1
    /\ last_retry.cause = "status" => last_retry.status \in {429, 500, 502, 503, 504}
    /\ last_retry.retry_after.present =>
          /\ last_retry.source = "retry_after"
          /\ last_retry.tenths = 10 * last_retry.retry_after.seconds
    /\ outcome.kind = "returned" => (200 <= outcome.status /\ outcome.status < 300)
    /\ (fpc = "done" /\ is_exhausted(retry)) => outcome.kind = "raised"

\* C11: parse_discussion_page always yields a ParsedQuestion whose choices
\* list is not empty, and when the selected <li> elements hold no non-empty
\* text the list is exactly the one placeholder choice.
C11_ChoicesNeverEmpty ==
    xpc \in {"parsed", "record", "normalized"} =>
        LET els == IF html.sel1 # <<>> THEN html.sel1
                   ELSE IF html.sel2 # <<>> THEN html.sel2 ELSE html.sel3
        IN  /\ pq.choices # <<>>
            /\ (\A j \in 1..Len(els) : LiText(els[j]) = <<>>) =>
                  pq.choices = <<[label |-> "None",
                                  text |-> <<"N/A (could not parse choices)">>,
                                  is_correct |-> FALSE]>>

\* the first selector matched only empty <li> elements
C11_Witness ==
    /\ xpc = "parsed"
    /\ Len(html.sel1) = 2
    /\ \A j \in 1..2 : LiText(html.sel1[j]) = <<>>
    /\ Len(pq.choices) = 1
    /\ pq.choices[1].text = <<"N/A (could not parse choices)">>

\* C15: the record built by parsed_to_question_dict has pairwise distinct
\* choice ids, whatever the labels of the parsed choices.
C15_ChoiceIdsDistinct ==
    xpc \in {"record", "normalized"} =>
        \A a, b \in 1..Len(qdict.choices) :
            a # b => qdict.choices[a].id # qdict.choices[b].id

\* C16: in a record that went through parsed_to_question_dict and
\* normalize_question_dict, answer_choice_ids is absent or holds only ids of
\* the record's choices.
C16_AnswersAreChoiceIds ==
    xpc = "normalized" =>
        \/ qnorm.answer_choice_ids = NoneList
        \/ Range(qnorm.answer_choice_ids) \subseteq
              {qnorm.choices[j].id : j \in 1..Len(qnorm.choices)}

\* C17: a record that leaves normalize_question_dict with more than one
\* answer id has is_multi_select true or absent.
C17_SeveralAnswersMeanMulti ==
    xpc = "normalized" =>
        ((qnorm.answer_choice_ids # NoneList /\ Len(qnorm.answer_choice_ids) > 1)
            => qnorm.is_multi_select \in {"true", NoneBool})

\* C18: normalize_question_dict changes answer_choice_ids only when the
\* input has none, leaves a present is_multi_select as it is, and returns
\* every field other than text, answer_choice_ids and is_multi_select
\* unchanged.
C18_NormalizeFrame ==
    npc \in {"once", "twice"} =>
        /\ nq.answer_choice_ids # NoneList =>
              n1.answer_choice_ids = nq.answer_choice_ids
        /\ nq.is_multi_select # NoneBool =>
              n1.is_multi_select = nq.is_multi_select
        /\ n1.explanation = nq.explanation
        /\ n1.id = nq.id

\* the text names other answers than the record, and a "(Choose two)" that
\* contradicts the record's flag
C18_Witness ==
    /\ npc = "once"
    /\ nq.answer_choice_ids = <<"A">>
    /\ LabelsOf(nq.text) = <<"A", "C">>
    /\ nq.is_multi_select = "false"
    /\ n1.text # nq.text
    /\ n1.answer_choice_ids = <<"A">>

\* the field is missing or empty (blank)
Lacks(d, k) == k \notin DOMAIN d \/ StripStr(d[k]) = ""

IdsOf(d) == IF "choices" \in DOMAIN d
            THEN {GetOr(d.choices[m], "id", Missing) : m \in 1..Len(d.choices)}
            ELSE {}

\* a defect of a question other than in its answers
QuestionDefect(qs, i) ==
    \/ Lacks(qs[i], "id")
    \/ Lacks(qs[i], "text")
    \/ "choices" \notin DOMAIN qs[i]
    \/ qs[i].choices = <<>>
    \/ \E j \in 1..Len(qs[i].choices) :
          \/ Lacks(qs[i].choices[j], "id")
          \/ Lacks(qs[i].choices[j], "text")
          \/ \E m \in 1..(j - 1) :
                GetOr(qs[i].choices[m], "id", Missing) = qs[i].choices[j].id
    \/ \E m \in 1..(i - 1) : GetOr(qs[m], "id", Missing) = qs[i].id

\* a defect of the document other than in the questions list itself and in
\* the answers
DocDefect(d) ==
    \/ Lacks(d, "set_id")
    \/ Lacks(d, "title")
    \/ "questions" \notin DOMAIN d
    \/ \E i \in 1..Len(d.questions) : QuestionDefect(d.questions, i)

\* some entry of answer_choice_ids is not the id of a choice
AnswerDefect(d) ==
    /\ "questions" \in DOMAIN d
    /\ \E i \in 1..Len(d.questions) :
          LET a == GetOr(d.questions[i], "answer_choice_ids", NoneList)
          IN  /\ a # NoneList
              /\ \E j \in 1..Len(a) : a[j] \notin IdsOf(d.questions[i])

\* some entry of answer_choice_ids, once trimmed, is neither blank nor the
\* id of a choice
TrimmedAnswerDefect(d) ==
    /\ "questions" \in DOMAIN d
    /\ \E i \in 1..Len(d.questions) :
          LET a == GetOr(d.questions[i], "answer_choice_ids", NoneList)
          IN  /\ a # NoneList
              /\ \E j \in 1..Len(a) :
                    /\ StripStr(a[j]) # ""
                    /\ StripStr(a[j]) \notin IdsOf(d.questions[i])

\* the loaded set has every required field, distinct ids and resolved answers
SetIsSound(qs) ==
    /\ ~DocDefect(qs)
    /\ ~AnswerDefect(qs)

\* C12 (as stated): the loader raises and returns nothing whenever a
\* required field (questions included) is missing or empty, an id is
\* duplicated or an answer entry is not a choice id; what it returns
\* satisfies all of these conditions.
C12_AsStated ==
    lpc = "loaded" =>
        /\ (\/ DocDefect(document)
            \/ GetOr(document, "questions", <<>>) = <<>>
            \/ AnswerDefect(document)) => (load_error /\ qset = NoSet)
        /\ ~load_error => (SetIsSound(qset) /\ qset.questions # <<>>)

\* C12 (amended): the loader raises and returns nothing whenever set_id,
\* title, a question id/text/choices or a choice id/text is missing or
\* empty, questions is missing, an id is duplicated, or an answer entry is,
\* once trimmed, neither blank nor a choice id; what it returns satisfies
\* all of these conditions (its questions list may be empty).
C12_LoaderFailsClosed ==
    lpc = "loaded" =>
        /\ (DocDefect(document) \/ TrimmedAnswerDefect(document))
              => (load_error /\ qset = NoSet)
        /\ ~load_error => SetIsSound(qset)

\* a document whose only defect is an answer id that is no choice id is
\* rejected
C12_Witness ==
    /\ lpc = "loaded"
    /\ origin = "file"
    /\ ~DocDefect(document)
    /\ TrimmedAnswerDefect(document)
    /\ load_error

\* C13: a document written by the scrape export (well-formed records) is
\* accepted by parse_question_set.
C13_ExportedDocLoads ==
    (lpc = "loaded" /\ origin = "export") => ~load_error

\* C14: in every exported document (the single file or any chunk) the
\* question ids are pairwise distinct.
C14_ExportedIdsDistinct ==
    spc = "done" =>
        \A f \in 1..Len(out_files) :
            LET qs == out_files[f].doc.questions
            IN  \A a, b \in 1..Len(qs) : a # b => qs[a].id # qs[b].id

\* ---- C19 ----------------------------------------------------------------
\* the scrape half of the exit-code contract: 0 only without a failed URL,
\* 1 when the run completed with a failed URL, 2 on a missing or empty URL
\* file, and then nothing was fetched, processed or written
C19_ScrapeExitCodes ==
    /\ exit_code \in {-1, 0, 1, 2}
    /\ (exit_code = 0 => fail = 0)
    /\ (exit_code = 1 => fail > 0 /\ pos > Len(urls))
    /\ (exit_code \in {0, 1} => urls_file.exists /\ urls # <<>>)
    /\ (exit_code = 2 =>
          /\ (~urls_file.exists \/ read_urls(urls_file.lines) = <<>>)
          /\ fetched = <<>>
          /\ processed = <<>>
          /\ out_files = <<>>
          /\ questions = <<>>)
    /\ (spc = "done" => exit_code # -1)

\* the cache file is not touched by a run that ends with exit code 2
C19_UsageErrorLeavesCache == [][exit_code' = 2 => disk' = disk]_vars

\* the collect-urls half: 0 only without a failed list page, 1 when the
\* command completed with a failed list page
C19_CollectExitCodes ==
    /\ (collect_exit_code = 0 => failed_pages = <<>>)
    /\ (cpc = "done" /\ collect_exit_code # -1 /\ failed_pages # <<>>
          => collect_exit_code = 1)

\* C19: exit codes of both subcommands: 0 is returned only when the run had
\* no per-item failure, 1 when it completed with at least one per-item
\* failure (a failed discussion URL in scrape, a failed list page in
\* collect-urls), 2 on a missing or empty URL file, and then nothing is
\* fetched and no file is written
C19_ExitCodes == C19_ScrapeExitCodes /\ C19_CollectExitCodes

\* ---- C20 ----------------------------------------------------------------
\* the indices of the URLs the loop has dealt with in the given way
HowMany(how) == Cardinality({j \in 1..Len(processed) : processed[j].how = how})

\* the loop deals with the URLs one by one in list order, whatever happened to
\* the earlier ones, and the counters add up
C20_Accounting ==
    /\ Len(processed) <= Len(urls)
    /\ \A j \in 1..Len(processed) : processed[j].url = urls[j]
    /\ ok + fail = Len(processed)
    /\ fail = HowMany("failed")
    /\ Len(fetched) - (HowMany("extracted") + HowMany("failed")
                        + HowMany("unstored"))
          \in (IF spc = "fetching" THEN {1}
               ELSE IF spc = "crashed" THEN {0, 1} ELSE {0})
    /\ (exit_code \in {0, 1} =>
          /\ Len(processed) = Len(urls)
          /\ ok + fail = Len(urls))

\* C20: a scrape batch continues past individual failures: every URL of the
\* input list is processed exactly once in list order (skipped as cached,
\* extracted, or failed) whichever earlier URLs failed, a run that has read
\* its URL list always reaches the export step, and at the end ok + fail is
\* the number of input URLs with fail the number of URLs whose fetch or
\* parse raised
C20_BatchContinues ==
    /\ []C20_Accounting
    /\ (spc = "load") ~> (spc = "done" /\ exit_code \in {0, 1})

\* the same for the runs whose scraped_by_url is a dict (the cache file is
\* absent, not read, unparsable or a JSON object)
C20_BatchContinuesWithDict ==
    /\ [](shape = "dict" => C20_Accounting)
    /\ (spc = "loop" /\ shape = "dict") ~> (spc = "done" /\ exit_code \in {0, 1})

\* a finished run whose first URL failed and a later URL was extracted
C20_Witness ==
    /\ spc = "done"
    /\ exit_code = 1
    /\ Len(urls) >= 2
    /\ processed[1].how = "failed"
    /\ \E j \in 2..Len(processed) : processed[j].how = "extracted"
    /\ ok + fail = Len(urls)

\* ---- C21 ----------------------------------------------------------------
\* the cache file that was read is not a URL-to-record JSON object: it does
\* not parse, or it parses to a list or to null
MalformedCache == cache_st \in {"corrupt"} \cup OtherShapes

\* C21: a cache file whose content is not a valid URL-to-record JSON object
\* is treated as an empty cache: the run does not abort, starts with an empty
\* map, fetches every input URL, and a URL fails only if its own fetch or
\* parse fails
C21_MalformedCacheIsEmptyCache ==
    MalformedCache =>
        /\ spc # "aborted"
        /\ shape = "dict"
        /\ loaded = <<>>
        /\ (spc = "done" => Range(urls) \subseteq Range(fetched))
        /\ \A j \in 1..Len(processed) : processed[j].how # "unstored"
        /\ fail = HowMany("failed")

\* the same for a cache file that does not parse at all (truncated, garbage)
C21_UnparsableCacheIsEmptyCache ==
    cache_st = "corrupt" =>
        /\ spc # "aborted"
        /\ shape = "dict"
        /\ loaded = <<>>
        /\ (spc = "done" => Range(urls) \subseteq Range(fetched))
        /\ \A j \in 1..Len(processed) : processed[j].how # "unstored"
        /\ fail = HowMany("failed")

\* ---- C30 ----------------------------------------------------------------
\* the loop has dealt with URL u in the given way at least once
Dealt(u, how) ==
    \E j \in 1..Len(processed) : processed[j].url = u /\ processed[j].how = how

\* the place of urls[j] in the exported list: the URLs up to j that have an
\* entry
ExportPos(j) == Cardinality({i \in 1..j : HasKey(scraped, urls[i])})

\* C30: with overwrite requested, when re-fetching or re-parsing a URL that
\* is in the cache fails, the entry of that URL stays as it was, in memory
\* and in the rewritten cache file, and is exported at its place in URL-list
\* order, while the failure is counted and the run exits with 1; an entry is
\* replaced only by a successful extraction, and then as a whole
C30_FailedOverwriteKeepsEntry ==
    (overwrite /\ spc \notin {"idle", "read", "load"}) =>
        \A u \in Keys(loaded) :
            /\ HasKey(scraped, u)
            /\ (~Dealt(u, "extracted") => Get(scraped, u) = Get(loaded, u))
            /\ (Dealt(u, "extracted") => Get(scraped, u) = FreshRecord(u))
            /\ (Dealt(u, "failed") =>
                  /\ fail > 0
                  /\ (spc = "done" => exit_code = 1))
            /\ (use_cache /\ spc \in {"next", "done"} /\ processed # <<>> =>
                  /\ disk.st = "valid"
                  /\ HasKey(disk.data, u)
                  /\ Get(disk.data, u) = Get(scraped, u))
            /\ (spc = "done" /\ ~Dealt(u, "extracted") =>
                  \A j \in 1..Len(urls) :
                      urls[j] = u =>
                          /\ ExportPos(j) \in 1..Len(questions)
                          /\ questions[ExportPos(j)] =
                                normalize_question_dict(Get(loaded, u)))

\* a finished overwrite run with a cache file in which the re-fetch of a
\* cached URL failed and the old entry was exported
C30_Witness ==
    /\ spc = "done"
    /\ overwrite
    /\ use_cache
    /\ exit_code = 1
    /\ \E u \in Keys(loaded) :
          /\ Dealt(u, "failed")
          /\ ~Dealt(u, "extracted")
          /\ Get(disk.data, u) = Get(loaded, u)
          /\ normalize_question_dict(Get(loaded, u)) \in Range(questions)

\* ---- C23 ----------------------------------------------------------------
\* a word made of upper-case answer letters and commas only
AnswerWord(w) == w \in {"A", "C", "AC", "A,"}

\* the letters of the answer words that directly follow position i
RECURSIVE LettersAfter(_, _)
LettersAfter(ws, i) ==
    IF i > Len(ws) \/ ~AnswerWord(ws[i]) THEN <<>>
    ELSE Absorb(ws[i]) \o LettersAfter(ws, i + 1)

\* the labels the contract describes: the letters directly after the first
\* "Suggested Answer:" that is followed by a letter, else after the first
\* such "Correct Answer:", in first-seen order without duplicates
StatedLabels(t) ==
    LET sug == {i \in 1..Len(t.words) - 1 :
                   t.words[i] = SuggTok /\ AnswerWord(t.words[i + 1])}
        cor == {i \in 1..Len(t.words) - 1 :
                   t.words[i] = CorrTok /\ AnswerWord(t.words[i + 1])}
    IN  IF sug # {} THEN Dedup(LettersAfter(t.words, Min(sug) + 1))
        ELSE IF cor # {} THEN Dedup(LettersAfter(t.words, Min(cor) + 1))
        ELSE <<>>

\* C23: extract_answer_labels returns exactly the upper-case answer letters
\* that directly follow the chosen marker, in first-seen order without
\* duplicates; words that follow the letters contribute no labels
C23_LabelsAreTheLettersAfterMarker ==
    xpc \in {"parsed", "record", "normalized"} =>
        extract_answer_labels(meta_text(html)) = StatedLabels(meta_text(html))

\* ---- C25 ----------------------------------------------------------------
\* the text holds a "(Choose two/three/four/<N>)" phrase as the source
\* pages write it, with or without the full stop
StatedChoosePhrase(t) == Range(t.words) \cap {ChooseTok, ChooseDotTok} # {}

\* the resolved answer set has more than one id
SeveralAnswers(ids) == ids # NoneList /\ Len(ids) > 1

\* C25: when is_multi_select is absent, normalize_question_dict sets it to
\* true if and only if the resolved answer set has more than one id or the
\* question text contains a "(Choose two/three/four/<N>)" phrase as it
\* appears on the source pages (e.g. "(Choose two.)"), and to false otherwise
C25_MultiSelectDerived ==
    (npc \in {"once", "twice"} /\ nq.is_multi_select = NoneBool) =>
        /\ n1.is_multi_select \in {"true", "false"}
        /\ (n1.is_multi_select = "true") <=>
              (SeveralAnswers(n1.answer_choice_ids) \/ StatedChoosePhrase(n1.text))

\* the same with the phrase read as the regular expression of the code reads
\* it: "(Choose two)" without a full stop
C25_MultiSelectDerivedNoFullStop ==
    (npc \in {"once", "twice"} /\ nq.is_multi_select = NoneBool) =>
        /\ n1.is_multi_select \in {"true", "false"}
        /\ (n1.is_multi_select = "true") <=>
              (SeveralAnswers(n1.answer_choice_ids) \/ ChooseTok \in Range(n1.text.words))

\* ---- C24 ----------------------------------------------------------------
\* a question of a document with its absent optional keys read as null
FilledQuestion(q) ==
    [id |-> q.id,
     text |-> q.text,
     choices |-> [j \in 1..Len(q.choices) |->
                     [id |-> q.choices[j].id, text |-> q.choices[j].text]],
     answer_choice_ids |-> GetOr(q, "answer_choice_ids", NoneList),
     is_multi_select |-> GetOr(q, "is_multi_select", "None"),
     explanation |-> GetOr(q, "explanation", "None"),
     tags |-> GetOr(q, "tags", NoneList)]

FilledDocument(d) ==
    [set_id |-> d.set_id,
     title |-> d.title,
     questions |-> [i \in 1..Len(d.questions) |-> FilledQuestion(d.questions[i])]]

\* the document that holds the field values of a QuestionSet, in their order
AsDocument(qs) == qs

\* C24: for every document the loader accepts, parsing it, writing the
\* parsed QuestionSet back in the document shape and loading that again
\* gives a value structurally equal to the original document: field values,
\* the optional explanation, tags and answer_choice_ids strings included,
\* and the order of questions and choices are preserved
C24_RoundTrip ==
    (lpc = "loaded" /\ ~load_error) =>
        /\ ~Raises(AsDocument(qset))
        /\ parse_question_set(AsDocument(qset)) = FilledDocument(document)

\* loading the written-back document gives the QuestionSet again
C24_ReloadIsStable ==
    (lpc = "loaded" /\ ~load_error) =>
        /\ ~Raises(AsDocument(qset))
        /\ parse_question_set(AsDocument(qset)) = qset

\* ---- C22 ----------------------------------------------------------------
\* the words between the vote marker at position i and the one before it
SegmentBefore(ws, i) ==
    LET before == {k \in 1..(i - 1) : ws[k] \in VoteMarks}
        from   == IF before = {} THEN 1
                  ELSE (CHOOSE k \in before : \A m \in before : m <= k) + 1
    IN  SubSeq(ws, from, i - 1)

\* the vote markers that close a non-empty segment
ClosingMarks(ws) ==
    {i \in 1..Len(ws) : ws[i] \in VoteMarks /\ SegmentBefore(ws, i) # <<>>}

\* C22: with "upvoted N times" markers in the discussion text, the block
\* chosen is the non-empty segment in front of the marker with the greatest
\* N, the first of them when several have the greatest N, and its N is the
\* vote count of the "Top voted (<N> votes)" header; without a marker the
\* trimmed text is returned as it is
C22_TopVotedSelection ==
    tpc = "done" =>
        LET ws    == discussion_text.words
            marks == ClosingMarks(ws)
        IN  /\ (Range(ws) \cap VoteMarks = {} /\ ws # <<>>
                  => top_voted = Strip(discussion_text))
            /\ (marks # {} =>
                  \E i \in marks :
                      /\ \A k \in marks : VotesOf(ws[k]) <= VotesOf(ws[i])
                      /\ \A k \in marks : k < i => VotesOf(ws[k]) < VotesOf(ws[i])
                      /\ top_voted.words[1] = TopVotedHeader(VotesOf(ws[i]))
                      /\ top_voted = FormatBlock(VotesOf(ws[i]), SegmentBefore(ws, i)))

\* a 5-vote block followed by a 20-vote block: the 20-vote block is chosen
C22_Witness ==
    /\ tpc = "done"
    /\ discussion_text.words = <<"alice", Up5, "x", Up20>>
    /\ top_voted = TextOf(<<"Top voted (20 votes)", "x">>)

\* the trials of a partition stored with status in_progress
InProgress(part) ==
    {t \in TrialIds : part.trials[t] # NoItem /\ part.trials[t].status = "in_progress"}

\* C26: for any user and question set, at most one trial item has status
\* in_progress at any time, under every interleaving of create-trial,
\* update-trial, complete-trial, delete-trial and legacy PUT/DELETE requests.
C26_OneTrialInProgress ==
    \A p \in Pks : Cardinality(InProgress(table[p])) <= 1

\* C26, second half: a create-trial request that finds the active trial in_progress
\* is answered 400 and has written nothing.
C26_RejectedCreateWritesNothing ==
    [][\A s \in Slots :
        (/\ Running(s, "create") /\ reqs[s].pc = "get_trial"
         /\ reqs'[s] # reqs[s]
         /\ LET it == table[reqs[s].pk].trials[reqs[s].active_item.activeTrialId]
            IN it # NoItem /\ it.status = "in_progress")
        => (reqs'[s] = Done(reqs[s], 400) /\ table' = table)]_vars

\* the trial is stored with status completed
Completed(p, t) ==
    table[p].trials[t] # NoItem /\ table[p].trials[t].status = "completed"

\* the fields of a trial item that a completed trial keeps
Outcome(it) == <<it.status, it.stateJson, it.summary, it.completedAt>>

\* C27: completed is terminal: once a trial item has status completed, no
\* step of any request changes its status, stateJson, summary or
\* completedAt; the item can only disappear, through a delete-trial, a legacy
\* DELETE or the eviction of create-trial.
C27_CompletedIsTerminal ==
    [][\A p \in Pks : \A t \in TrialIds :
        Completed(p, t) =>
            \/ /\ table'[p].trials[t] # NoItem
               /\ Outcome(table'[p].trials[t]) = Outcome(table[p].trials[t])
            \/ /\ table'[p].trials[t] = NoItem
               /\ \E s \in Slots :
                    /\ reqs'[s] # reqs[s]
                    /\ reqs[s].pc = "delete"
                    /\ reqs[s].kind \in {"delete", "legacy_delete", "create"}]_vars

\* C27, the answers: an update-trial, complete-trial or legacy PUT that reads
\* a completed trial is answered 400 and writes nothing.
C27_CompletedIsRefused ==
    [][\A s \in Slots :
        (/\ reqs[s].kind \in {"update", "complete", "legacy_put"}
         /\ reqs[s].pc = "get_trial"
         /\ reqs'[s] # reqs[s]
         /\ Completed(reqs[s].pk, reqs[s].tid))
        => (reqs'[s] = Done(reqs[s], 400) /\ table' = table)]_vars

\* C28, the bound: no partition stores more than MAX_TRIALS_PER_SET trial
\* items of the set.
C28_AtMostMaxTrials ==
    \A p \in Pks : Cardinality(Stored(table[p])) <= MAX_TRIALS_PER_SET

\* create-trial deletes the oldest trial in this step
Evicts(s) ==
    /\ Running(s, "create")
    /\ reqs[s].pc = "delete"
    /\ reqs'[s] # reqs[s]

\* C28, the eviction: create-trial deletes a trial only when
\* MAX_TRIALS_PER_SET trials of the set are stored, and then the one with
\* the lowest trialNumber.
C28_EvictsOnlyWhenFull ==
    [][\A s \in Slots :
        Evicts(s) =>
            /\ Cardinality(Stored(table[reqs[s].pk])) = MAX_TRIALS_PER_SET
            /\ \A o \in Stored(table[reqs[s].pk]) :
                    table[reqs[s].pk].trials[reqs[s].items[1]].trialNumber
                        <= table[reqs[s].pk].trials[o].trialNumber]_vars

\* C28: after any sequence of create, complete and delete requests of one user
\* for one set, at most MAX_TRIALS_PER_SET trial items are stored, and
\* create-trial evicts the trial with the lowest trialNumber only when
\* MAX_TRIALS_PER_SET trials are currently stored.
C28_LimitEnforced == []C28_AtMostMaxTrials /\ C28_EvictsOnlyWhenFull

\* C28, what the code does: create-trial evicts whenever the count of trials
\* ever created for the set (trialCount of the ACTIVE item) has reached
\* MAX_TRIALS_PER_SET, whatever is stored, and it evicts the stored trial
\* with the lowest trialNumber.
C28_EvictsByCumulativeCount ==
    [][\A s \in Slots :
        Evicts(s) =>
            /\ reqs[s].active_item.trialCount >= MAX_TRIALS_PER_SET
            /\ \A o \in Stored(table[reqs[s].pk]) :
                    table[reqs[s].pk].trials[reqs[s].items[1]].trialNumber
                        <= table[reqs[s].pk].trials[o].trialNumber]_vars

\* C29, the calls: every table call made for a request was made for a caller
\* with a sub claim and used the partition key USER#<sub> of that caller.
C29_OwnPartitionOnly ==
    \A a \in access : a.sub \in Users /\ a.pk = <<"USER", a.sub>>

\* C29: a request without a sub claim is answered 401 without any table call;
\* every item read, written or deleted for an authenticated request lies in
\* the partition USER#<sub> of its caller, so the partition of a user changes
\* only in a step of a request of that user.
C29_UserIsolation ==
    /\ []C29_OwnPartitionOnly
    /\ [][\A u \in Users :
            table'[<<"USER", u>>] # table[<<"USER", u>>] =>
                \E s \in Slots : reqs[s].sub = u /\ reqs'[s] # reqs[s]]_vars
    /\ [][\A s \in Slots :
            (reqs[s].pc = "done" /\ reqs'[s] # reqs[s]) =>
                \/ reqs'[s].sub \in Users /\ reqs'[s].pc # "done"
                \/ reqs'[s].code = 401 /\ table' = table /\ access' = access]_vars

\* C29 witness: both users have stored something of their own, both have
\* made table calls, and an unauthenticated request has just been answered 401.
C29_Witness ==
    /\ \E s \in Slots : reqs[s].code = 401
    /\ \A u \in Users :
        /\ [sub |-> u, pk |-> <<"USER", u>>] \in access
        /\ Stored(table[<<"USER", u>>]) # {}
    /\ table[<<"USER", "u1">>] # table[<<"USER", "u2">>]
========================================================================
